---- MODULE Spec2Model ----
(***************************************************************************)
(* Eagle Eye Tree: swimlane layout, drag propagation and position saving.  *)
(*                                                                         *)
(* Modelled modules: graph.js v3.4 (src/unnamed/part_002, lines 209-930),  *)
(* state.js v3.5 (src/js/state.js), app.js v3.5 (src/unnamed/part_009) and *)
(* database.js (src/js/Temp/database.js, src/unnamed/part_001).            *)
(*                                                                         *)
(* Numbers.  Every coordinate is held in quarter pixels (Px(n) = 4n), so   *)
(* that the two nested midpoints (min + max) / 2 of the layout (group over *)
(* steps, root over groups) are exact on integers.  A curve parameter t is *)
(* held in twentieths (T20: 0.3 is 6, 0.5 is 10).  An optional JavaScript  *)
(* value (null or a value v) is the sequence <<>> or <<v>>.                *)
(***************************************************************************)
EXTENDS Integers, Sequences, FiniteSets, TLC

\* ---------------------------------------------------------------- bounds
MaxGroups == 2
MaxSteps == 2
MaxSaves == 1
MaxLabelCalls == 2
\* updatePart, updateFastener and updateSeqTag calls in flight at a time
MaxFieldCalls == 1

\* ------------------------------------------------------- program constants
NODE_WIDTH == 150
NODE_HEIGHT == 38
PART_NODE_WIDTH == 120
VERTICAL_GAP == 80
topPad == 80
headerH == 40
swimPadY == 30
swimGap == 14
partZone == 170
partSpacing == 34

\* ----------------------------------------------------------- conventions
Null == <<>>
Some(v) == <<v>>
Val(o) == o[1]
Px(n) == 4 * n
Max2(a, b) == IF a >= b THEN a ELSE b
Min2(a, b) == IF a <= b THEN a ELSE b
SeqToSet(s) == {s[i] : i \in DOMAIN s}

RECURSIVE MinOf(_)
MinOf(s) == IF Len(s) = 1 THEN s[1] ELSE Min2(s[1], MinOf(Tail(s)))
RECURSIVE MaxOf(_)
MaxOf(s) == IF Len(s) = 1 THEN s[1] ELSE Max2(s[1], MaxOf(Tail(s)))

\* (min + max) / 2 of a non-empty list of coordinates
MidOf(s) == (MinOf(s) + MaxOf(s)) \div 2

\* Math.ceil(n * 0.7) for an integer n >= 0
Ceil07(n) == (7 * n + 9) \div 10

\* Array.prototype.sort with (a.sort_order || 0) - (b.sort_order || 0): a
\* stable sort, so elements with equal keys keep their order in the array.
InsertStable(s, e) ==
  LET k == Cardinality({i \in DOMAIN s : s[i].sort_order <= e.sort_order})
  IN  SubSeq(s, 1, k) \o <<e>> \o SubSeq(s, k + 1, Len(s))
RECURSIVE SortBySortOrder(_)
SortBySortOrder(s) ==
  IF s = <<>> THEN <<>>
  ELSE InsertStable(SortBySortOrder(SubSeq(s, 1, Len(s) - 1)), s[Len(s)])

\* ------------------------------------------------------------------ state
VARIABLES
  assy, groups, steps, parts, fasts,       \* state.js: loaded entities
  stepLinks,                                \* state.js: loaded step links
  selectedStepId, showPartNodes, showFastenerLabels,
  layoutDirty, gap1, gap2, visibleGroupIds, \* state.js: view settings
  currentView,                              \* app.js
  allNodes,                                 \* graph.js: _allNodes
  positions,                                \* window._eagleEyePositions
  stepDom, linkDom, partHexDom, partLinkDom, \* the rendered SVG elements
  bounds,                                   \* window._eagleEyeBounds
  zoomTransform,                            \* the transform applied to the svg
  dbPos,                                    \* persisted step rows (x, y)
  saves,                                    \* savePositions calls in flight
  nSaves,                                   \* handleSave calls so far
  dragY,                                    \* history: last dragged y per step
  labelCalls,                               \* updateLabelPosition calls in flight
  nearestCall,                              \* history: the last call of nearestT
  ecnMode, ecnBrush, ecnChanges,            \* state.js: ECN marking
  fieldCalls                                \* updatePart, updateFastener and
                                            \* updateSeqTag calls in flight

vars == <<assy, groups, steps, parts, fasts, stepLinks, selectedStepId, showPartNodes,
          showFastenerLabels, layoutDirty, gap1, gap2, visibleGroupIds,
          currentView, allNodes, positions, stepDom, linkDom, partHexDom,
          partLinkDom, bounds, zoomTransform, dbPos, saves, nSaves, dragY,
          labelCalls, nearestCall, ecnMode, ecnBrush, ecnChanges, fieldCalls>>

\* The module state that calculateTreeLayout and renderGraph read.
State ==
  [assy |-> assy, groups |-> groups, steps |-> steps, parts |-> parts,
   fasts |-> fasts, selectedStepId |-> selectedStepId,
   showPartNodes |-> showPartNodes, showFastenerLabels |-> showFastenerLabels,
   gap1 |-> gap1, gap2 |-> gap2, visibleGroupIds |-> visibleGroupIds]

\* ------------------------------------------------------- swimlane layout
stepColX == Px(partZone + 50)
groupColX(st) == stepColX + Px(st.gap1)
rootColX(st) == groupColX(st) + Px(st.gap2)

StepNodeId(id) == <<"s", id>>
GroupNodeId(id) == <<"g", id>>
RootNodeId == <<"root", 0>>

PartsOf(st, sid) == SelectSeq(st.parts, LAMBDA p : p.step_id = sid)
FastsOf(st, sid) == SelectSeq(st.fasts, LAMBDA f : f.step_id = sid)

\* mutant of FilteredGroups: the filter is not applied
FilteredGroupsUnfiltered(st) == SortBySortOrder(st.groups)

\* groups.slice().sort(...) then the visibleGroupIds filter
FilteredGroups(st) ==
  LET sortedGroups == SortBySortOrder(st.groups)
  IN  IF st.visibleGroupIds # Null
      THEN SelectSeq(sortedGroups, LAMBDA g : g.id \in Val(st.visibleGroupIds))
      ELSE sortedGroups

GroupSteps(st, grp) ==
  SortBySortOrder(SelectSeq(st.steps, LAMBDA s : s.group_id = grp.id))

RECURSIVE MaxPartsOf(_, _)
MaxPartsOf(st, gSteps) ==
  IF gSteps = <<>> THEN 0
  ELSE Max2(MaxPartsOf(st, SubSeq(gSteps, 1, Len(gSteps) - 1)),
            Len(PartsOf(st, gSteps[Len(gSteps)].id)))

\* mutant of SwimHeight: the part counts of the steps are not looked at
SwimHeightStepsOnly(st, gSteps) ==
  Max2(Len(gSteps) * Px(VERTICAL_GAP), (Px(VERTICAL_GAP) * 3) \div 2)
    + Px(swimPadY) * 2

\* contentH + 2 * swimPadY of one band
SwimHeight(st, gSteps) ==
  LET numSteps == Len(gSteps)
      maxParts == MaxPartsOf(st, gSteps)
      contentH == Max2(Max2(numSteps, Ceil07(maxParts)) * Px(VERTICAL_GAP),
                       (Px(VERTICAL_GAP) * 3) \div 2)
  IN  contentH + Px(swimPadY) * 2

\* mutant of StepNodeX: the persisted x of the step is honoured
StepNodeXPersisted(step) == IF step.x # Null THEN Val(step.x) ELSE stepColX

\* var x = stepColX
StepNodeX(step) == stepColX

\* mutant of StepNodeY: the rank of the step in its band is not used
StepNodeYUnranked(step, si, swimStartY) ==
  IF step.y # Null THEN Val(step.y) ELSE swimStartY + Px(swimPadY)

\* var y = (step.y != null) ? step.y : (swimStartY + swimPadY + si * stepGapY)
StepNodeY(step, si, swimStartY) ==
  IF step.y # Null THEN Val(step.y)
  ELSE swimStartY + Px(swimPadY) + si * Px(VERTICAL_GAP)

\* the step node pushed for gSteps[si + 1] (si is the 0-based rank)
StepNode(st, grp, gi, step, si, swimStartY) ==
  [id |-> StepNodeId(step.id), dbId |-> step.id,
   x |-> StepNodeX(step),
   y |-> StepNodeY(step, si, swimStartY),
   w |-> Px(NODE_WIDTH), h |-> Px(NODE_HEIGHT),
   groupId |-> grp.id, seq |-> si + 1,
   isStep |-> TRUE, isGroup |-> FALSE, isRoot |-> FALSE,
   isSelected |-> (st.selectedStepId = Some(step.id)),
   partCount |-> Len(PartsOf(st, step.id)),
   fastCount |-> Len(FastsOf(st, step.id)),
   swimIdx |-> gi]

GroupNode(st, grp, gi, stepNodes, swimStartY, swimH) ==
  LET stepYs == [i \in DOMAIN stepNodes |-> stepNodes[i].y]
      groupY == IF Len(stepYs) > 0 THEN MidOf(stepYs)
                ELSE swimStartY + swimH \div 2
  IN  [id |-> GroupNodeId(grp.id), dbId |-> 0,
       x |-> groupColX(st), y |-> groupY,
       w |-> Px(NODE_WIDTH + 20), h |-> Px(NODE_HEIGHT + 8),
       groupId |-> grp.id, seq |-> gi + 1,
       isStep |-> FALSE, isGroup |-> TRUE, isRoot |-> FALSE,
       isSelected |-> FALSE,
       partCount |-> 0, fastCount |-> 0, swimIdx |-> gi]

\* the step-to-group link of one step: the first fastener in array order
StepLink(st, grp, step) ==
  LET sf == FastsOf(st, step.id)
      has == Len(sf) > 0
  IN  [sourceId |-> StepNodeId(step.id), targetId |-> GroupNodeId(grp.id),
       type |-> "step-to-group", stepDbId |-> step.id,
       labelPos |-> IF step.label_position # Null
                    THEN Val(step.label_position) ELSE 10,
       fastener_pn |-> IF has THEN sf[1].pn ELSE Null,
       qty |-> IF has THEN sf[1].qty ELSE 0,
       loctite |-> IF has THEN sf[1].loctite ELSE Null,
       torque |-> IF has THEN sf[1].torque ELSE Null,
       totalFasteners |-> Len(sf)]

GroupLink(grp) ==
  [sourceId |-> GroupNodeId(grp.id), targetId |-> RootNodeId,
   type |-> "group-to-root", stepDbId |-> 0, labelPos |-> 10,
   fastener_pn |-> Null, qty |-> 0, loctite |-> Null, torque |-> Null,
   totalFasteners |-> 0]

\* filteredGroups.forEach: acc carries allNodes, allLinks, swimlanes, curY
RECURSIVE LayoutBands(_, _, _)
LayoutBands(st, fg, n) ==
  IF n = 0
  THEN [nodes |-> <<>>, links |-> <<>>, swimlanes |-> <<>>,
        curY |-> Px(topPad + headerH)]
  ELSE
    LET acc == LayoutBands(st, fg, n - 1)
        grp == fg[n]
        gi == n - 1
        gSteps == GroupSteps(st, grp)
        swimH == SwimHeight(st, gSteps)
        swimStartY == acc.curY
        stepNodes == [i \in DOMAIN gSteps |->
                        StepNode(st, grp, gi, gSteps[i], i - 1, swimStartY)]
        grpNode == GroupNode(st, grp, gi, stepNodes, swimStartY, swimH)
        grpLinks == [i \in DOMAIN gSteps |-> StepLink(st, grp, gSteps[i])]
    IN  [nodes |-> acc.nodes \o stepNodes \o <<grpNode>>,
         links |-> acc.links \o grpLinks \o <<GroupLink(grp)>>,
         swimlanes |-> Append(acc.swimlanes,
                          [gid |-> grp.id, gi |-> gi, startY |-> swimStartY,
                           height |-> swimH, stepCount |-> Len(gSteps)]),
         curY |-> swimStartY + swimH + Px(swimGap)]

RootNode(st, nodes, nGroups) ==
  LET gn == SelectSeq(nodes, LAMBDA n : n.isGroup)
      groupYs == [i \in DOMAIN gn |-> gn[i].y]
      rootY == IF Len(groupYs) > 0 THEN MidOf(groupYs)
               ELSE Px(topPad + headerH)
  IN  [id |-> RootNodeId, dbId |-> 0,
       x |-> rootColX(st), y |-> rootY,
       w |-> Px(NODE_WIDTH + 40), h |-> Px(NODE_HEIGHT + 16),
       groupId |-> 0, seq |-> 0,
       isStep |-> FALSE, isGroup |-> FALSE, isRoot |-> TRUE,
       isSelected |-> FALSE,
       partCount |-> 0, fastCount |-> 0, swimIdx |-> nGroups + 1]

\* mutant of NoVisibleGroup: the empty result of the filter is not checked
NoVisibleGroupUnchecked(filteredGroups) == FALSE

\* if (!filteredGroups.length) return null
NoVisibleGroup(filteredGroups) == filteredGroups = <<>>

\* calculateTreeLayout: kind is "null" (returned null), "throw" (reading
\* assy.tag of a null assy raised a TypeError) or "layout".
calculateTreeLayout(st) ==
  IF st.groups = <<>> \/ st.steps = <<>> THEN [kind |-> "null"]
  ELSE
    LET filteredGroups == FilteredGroups(st)
    IN  IF NoVisibleGroup(filteredGroups) THEN [kind |-> "null"]
        ELSE
          LET b == LayoutBands(st, filteredGroups, Len(filteredGroups))
          IN  IF st.assy = Null THEN [kind |-> "throw"]
              ELSE [kind |-> "layout",
                    nodes |-> Append(b.nodes,
                                RootNode(st, b.nodes, Len(filteredGroups))),
                    links |-> b.links,
                    swimlanes |-> b.swimlanes,
                    sortedGroups |-> filteredGroups,
                    width |-> rootColX(st) + Px(250),
                    height |-> b.curY + Px(50)]

\* ------------------------------------------------------ bezier geometry
\* bezierPoint(t, sx, sy, tx, ty) with control points (sx,sy) (mx,sy)
\* (mx,ty) (tx,ty), mx = (sx + tx) / 2.  t is in twentieths; the point is
\* returned exactly, as numerators over 2 * 20^3 quarter pixels.
bezierPoint(t, sx, sy, tx, ty) ==
  LET u == 20 - t
      uuu == u * u * u
      uut == 3 * u * u * t
      utt == 3 * u * t * t
      ttt == t * t * t
  IN  [x |-> uuu * 2 * sx + uut * (sx + tx) + utt * (sx + tx) + ttt * 2 * tx,
       y |-> 2 * (uuu * sy + uut * sy + utt * ty + ttt * ty)]

\* bezierPath(sx, sy, tx, ty): the curve is determined by its two anchors
bezierPath(sx, sy, tx, ty) == [sx |-> sx, sy |-> sy, tx |-> tx, ty |-> ty]

\* ---------------------------------------- exact arithmetic beyond 32 bits
\* A natural number is the sequence of its digits in base Base, least
\* significant first, without leading zero digit (<<>> is 0); an integer is
\* a sign and a natural number.  Used where the code's numbers need more
\* than the 32 bits of a model integer: curve points at t in 1/4000.
Base == 100 * 100
Digit(a, i) == IF i <= Len(a) THEN a[i] ELSE 0

RECURSIVE NatOfInt(_)
NatOfInt(n) == IF n = 0 THEN <<>> ELSE <<n % Base>> \o NatOfInt(n \div Base)

RECURSIVE NatTrim(_)
NatTrim(a) ==
  IF a = <<>> THEN <<>>
  ELSE IF a[Len(a)] = 0 THEN NatTrim(SubSeq(a, 1, Len(a) - 1)) ELSE a

RECURSIVE NatAddFrom(_, _, _, _)
NatAddFrom(a, b, i, carry) ==
  IF i > Len(a) /\ i > Len(b)
  THEN IF carry = 0 THEN <<>> ELSE <<carry>>
  ELSE LET d == Digit(a, i) + Digit(b, i) + carry
       IN  <<d % Base>> \o NatAddFrom(a, b, i + 1, d \div Base)
NatAdd(a, b) == NatAddFrom(a, b, 1, 0)

\* a - b for a >= b
RECURSIVE NatSubFrom(_, _, _, _)
NatSubFrom(a, b, i, borrow) ==
  IF i > Len(a) THEN <<>>
  ELSE LET d == a[i] - Digit(b, i) - borrow
       IN  IF d < 0 THEN <<d + Base>> \o NatSubFrom(a, b, i + 1, 1)
           ELSE <<d>> \o NatSubFrom(a, b, i + 1, 0)
NatSub(a, b) == NatTrim(NatSubFrom(a, b, 1, 0))

\* a < b
RECURSIVE NatLessFrom(_, _, _)
NatLessFrom(a, b, i) ==
  IF i = 0 THEN FALSE
  ELSE IF a[i] # b[i] THEN a[i] < b[i] ELSE NatLessFrom(a, b, i - 1)
NatLess(a, b) ==
  IF Len(a) # Len(b) THEN Len(a) < Len(b) ELSE NatLessFrom(a, b, Len(a))

\* a * k for a digit k
RECURSIVE NatMulDigitFrom(_, _, _, _)
NatMulDigitFrom(a, k, i, carry) ==
  IF i > Len(a) THEN IF carry = 0 THEN <<>> ELSE <<carry>>
  ELSE LET d == a[i] * k + carry
       IN  <<d % Base>> \o NatMulDigitFrom(a, k, i + 1, d \div Base)

RECURSIVE NatMul(_, _)
NatMul(a, b) ==
  IF a = <<>> \/ b = <<>> THEN <<>>
  ELSE LET rest == NatMul(a, Tail(b))
       IN  NatAdd(NatTrim(NatMulDigitFrom(a, b[1], 1, 0)),
                  IF rest = <<>> THEN <<>> ELSE <<0>> \o rest)

ZOfInt(n) == [neg |-> n < 0, mag |-> NatOfInt(IF n < 0 THEN 0 - n ELSE n)]
ZAdd(a, b) ==
  IF a.neg = b.neg THEN [neg |-> a.neg, mag |-> NatAdd(a.mag, b.mag)]
  ELSE IF NatLess(a.mag, b.mag)
       THEN [neg |-> b.neg, mag |-> NatSub(b.mag, a.mag)]
       ELSE LET m == NatSub(a.mag, b.mag)
            IN  [neg |-> a.neg /\ m # <<>>, mag |-> m]
ZSub(a, b) == ZAdd(a, [neg |-> ~b.neg /\ b.mag # <<>>, mag |-> b.mag])
ZMul(a, b) ==
  LET m == NatMul(a.mag, b.mag)
  IN  [neg |-> (a.neg # b.neg) /\ m # <<>>, mag |-> m]

\* ------------------------------------------------------------- nearestT
\* Curve parameters of nearestT are held in 1/4000 (T4000): the coarse
\* samples i/40 are 100 i, the refinement samples lo + (hi - lo) j / 20 are
\* lo + 10 j (5 j next to an end of the curve), the result is in 1/1000.
T4000 == 4 * 1000

\* bezierPoint at t = n / T4000, as numerators over 2 * T4000^3 quarter
\* pixels
bezierPointExact(n, sx, sy, tx, ty) ==
  LET u == T4000 - n
      uuu == NatMul(NatOfInt(u * u), NatOfInt(u))
      uut == NatMul(NatOfInt(3 * u * u), NatOfInt(n))
      utt == NatMul(NatOfInt(3 * u), NatOfInt(n * n))
      ttt == NatMul(NatOfInt(n * n), NatOfInt(n))
      W(m) == [neg |-> FALSE, mag |-> m]
  IN  [x |-> ZAdd(ZAdd(ZMul(ZOfInt(2 * sx), W(uuu)),
                       ZMul(ZOfInt(sx + tx), W(NatAdd(uut, utt)))),
                  ZMul(ZOfInt(2 * tx), W(ttt))),
       y |-> ZAdd(ZMul(ZOfInt(2 * sy), W(NatAdd(uuu, uut))),
                  ZMul(ZOfInt(2 * ty), W(NatAdd(utt, ttt))))]

\* dx * dx + dy * dy from the curve point at n to (px, py), a natural number
\* over (2 * T4000^3)^2
PointDenominator ==
  [neg |-> FALSE, mag |-> NatMul(NatOfInt(2 * T4000), NatOfInt(T4000 * T4000))]
DistExact(n, px, py, sx, sy, tx, ty) ==
  LET pt == bezierPointExact(n, sx, sy, tx, ty)
      dx == ZSub(pt.x, ZMul(ZOfInt(px), PointDenominator))
      dy == ZSub(pt.y, ZMul(ZOfInt(py), PointDenominator))
  IN  NatAdd(NatMul(dx.mag, dx.mag), NatMul(dy.mag, dy.mag))

\* one sample of a pass: its parameter and its squared distance
Sample(n, px, py, sx, sy, tx, ty) ==
  [t |-> n, dist |-> DistExact(n, px, py, sx, sy, tx, ty)]

\* if (dist < bestDist) { bestDist = dist; bestT = t; }: a later sample
\* replaces an earlier one only when it is strictly closer
Nearer(earlier, later) ==
  IF NatLess(later.dist, earlier.dist) THEN later ELSE earlier

\* the best of the samples from + a * step .. from + b * step visited in
\* increasing order: the first one at the least distance
RECURSIVE BestSample(_, _, _, _, _, _, _, _, _, _)
BestSample(from, step, a, b, px, py, sx, sy, tx, ty) ==
  IF a = b THEN Sample(from + a * step, px, py, sx, sy, tx, ty)
  ELSE LET mid == (a + b) \div 2
       IN  Nearer(BestSample(from, step, a, mid, px, py, sx, sy, tx, ty),
                  BestSample(from, step, mid + 1, b, px, py, sx, sy, tx, ty))

\* for (i = 0; i <= 40; i++) { t = i / 40; ... }: bestDist starts at
\* Infinity, so sample 0 is always taken
CoarsePass(px, py, sx, sy, tx, ty) ==
  BestSample(0, T4000 \div 40, 0, 40, px, py, sx, sy, tx, ty)

\* for (j = 0; j <= 20; j++) { t2 = lo + (hi - lo) * j / 20; ... }
RefinePass(best, lo, hi, px, py, sx, sy, tx, ty) ==
  Nearer(best, BestSample(lo, (hi - lo) \div 20, 0, 20, px, py, sx, sy, tx, ty))

\* Math.round(bestT * 1000) / 1000, in 1/1000.  Math.round takes a half up;
\* bestT * 1000 is a double, and for a bestT whose exact value ends in a
\* half (0.4025) the double product lies on either side of the half
\* (402.5 or 402.49999999999994), so both neighbours can be returned.
RoundT(n) ==
  IF n % 4 = 2 THEN {n \div 4, n \div 4 + 1} ELSE {(n + 2) \div 4}

\* nearestT(px, py, sx, sy, tx, ty): the values it can return, in 1/1000
nearestT(px, py, sx, sy, tx, ty) ==
  LET coarse == CoarsePass(px, py, sx, sy, tx, ty)
      lo == Max2(0, coarse.t - T4000 \div 40)
      hi == Min2(T4000, coarse.t + T4000 \div 40)
  IN  RoundT(RefinePass(coarse, lo, hi, px, py, sx, sy, tx, ty).t)

FindNode(nodes, id) ==
  LET hits == SelectSeq(nodes, LAMBDA n : n.id = id)
  IN  IF hits = <<>> THEN Null ELSE Some(hits[1])

\* source anchor: right-centre edge; target anchor: left-centre edge
LinkAnchors(src, tgt) ==
  [sx |-> src.x + src.w \div 2, sy |-> src.y,
   tx |-> tgt.x - tgt.w \div 2, ty |-> tgt.y]

\* the annotation lines of a fastener label
LabelLines(lk) ==
  (IF lk.fastener_pn # Null
   THEN <<[kind |-> "pn", text |-> Val(lk.fastener_pn),
           qty |-> IF lk.qty > 1 THEN lk.qty ELSE 0]>> ELSE <<>>)
  \o (IF lk.loctite # Null /\ lk.loctite # Some("---")
      THEN <<[kind |-> "loctite", text |-> Val(lk.loctite), qty |-> 0]>>
      ELSE <<>>)
  \o (IF lk.torque # Null /\ lk.torque # Some("---")
      THEN <<[kind |-> "torque", text |-> Val(lk.torque), qty |-> 0]>>
      ELSE <<>>)
  \o (IF lk.totalFasteners > 1
      THEN <<[kind |-> "more", text |-> "more",
              qty |-> lk.totalFasteners - 1]>> ELSE <<>>)

\* links.forEach of renderGraph: one .link-group element per link whose two
\* nodes exist; label is the .fast-label child (Null when not drawn).
RenderLink(st, nodes, lk) ==
  LET src == FindNode(nodes, lk.sourceId)
      tgt == FindNode(nodes, lk.targetId)
  IN  IF src = Null \/ tgt = Null THEN <<>>
      ELSE
        LET a == LinkAnchors(Val(src), Val(tgt))
            lines == LabelLines(lk)
            t == lk.labelPos
            drawn == st.showFastenerLabels /\ lk.type = "step-to-group"
                     /\ lk.totalFasteners > 0 /\ lines # <<>>
        IN  <<[src |-> lk.sourceId, tgt |-> lk.targetId,
               path |-> bezierPath(a.sx, a.sy, a.tx, a.ty),
               label |-> IF drawn
                         THEN Some([stepid |-> lk.stepDbId, labelpos |-> t,
                                    sx |-> a.sx, sy |-> a.sy,
                                    tx |-> a.tx, ty |-> a.ty,
                                    at |-> bezierPoint(t, a.sx, a.sy, a.tx, a.ty),
                                    lines |-> lines])
                         ELSE Null]>>

RECURSIVE RenderLinks(_, _, _)
RenderLinks(st, nodes, links) ==
  IF links = <<>> THEN <<>>
  ELSE RenderLink(st, nodes, links[1]) \o RenderLinks(st, nodes, Tail(links))

\* part leaf nodes of one step node: x of every part and y of part pi
PartX(nd) == nd.x - nd.w \div 2 - Px(PART_NODE_WIDTH) \div 2 - Px(30)
PartY(nd, n, pi) == nd.y - ((n - 1) * Px(partSpacing)) \div 2 + pi * Px(partSpacing)

PartLinkPath(nd, px, py) ==
  [mx |-> px + Px(PART_NODE_WIDTH) \div 2, my |-> py,
   ex |-> nd.x - nd.w \div 2, ey |-> nd.y]

RenderPartHexes(st, nd) ==
  LET sp == SortBySortOrder(PartsOf(st, nd.dbId))
  IN  [i \in DOMAIN sp |->
         [stepid |-> nd.dbId, partid |-> sp[i].id,
          offsety |-> PartY(nd, Len(sp), i - 1) - nd.y,
          x |-> PartX(nd), y |-> PartY(nd, Len(sp), i - 1)]]

RenderPartLinks(st, nd) ==
  LET sp == SortBySortOrder(PartsOf(st, nd.dbId))
  IN  [i \in DOMAIN sp |->
         [stepid |-> nd.dbId,
          d |-> PartLinkPath(nd, PartX(nd), PartY(nd, Len(sp), i - 1))]]

RECURSIVE FlatMap(_, _)
FlatMap(Op(_), s) == IF s = <<>> THEN <<>> ELSE Op(s[1]) \o FlatMap(Op, Tail(s))

StepNodesOf(nodes) == SelectSeq(nodes, LAMBDA n : n.isStep)

\* window._eagleEyePositions built from the step nodes
PositionsOf(nodes) ==
  LET sn == StepNodesOf(nodes)
  IN  [id \in {sn[i].dbId : i \in DOMAIN sn} |->
         LET n == CHOOSE m \in SeqToSet(sn) : m.dbId = id
         IN  [x |-> n.x, y |-> n.y]]

\* ------------------------------------------------- numbers of fitToScreen
\* A JavaScript number of the fit computation: a fraction n / d of a pixel
\* (d > 0; in lowest terms after a multiplication, a division or a sum of
\* fractions with different d), an infinity, or NaN.  The sign of a zero is
\* not kept.
RECURSIVE Gcd(_, _)
Gcd(a, b) == IF b = 0 THEN a ELSE Gcd(b, a % b)
Abs(n) == IF n < 0 THEN 0 - n ELSE n
Frac(n, d) == [k |-> "fin", n |-> n, d |-> d]
Num(n) == Frac(n, 1)
Rat(n, d) ==
  LET g == Gcd(Abs(n), d)
  IN  Frac(IF n < 0 THEN 0 - (Abs(n) \div g) ELSE n \div g, d \div g)
Infinity == [k |-> "inf", neg |-> FALSE]
NegInfinity == [k |-> "inf", neg |-> TRUE]
NaN == [k |-> "nan"]
IsNegative(a) == IF a.k = "inf" THEN a.neg ELSE a.n < 0
IsZero(a) == a.k = "fin" /\ a.n = 0

XNeg(a) ==
  IF a.k = "nan" THEN NaN
  ELSE IF a.k = "inf" THEN [k |-> "inf", neg |-> ~a.neg]
  ELSE Frac(0 - a.n, a.d)
XAdd(a, b) ==
  IF a.k = "nan" \/ b.k = "nan" THEN NaN
  ELSE IF a.k = "inf" /\ b.k = "inf" THEN IF a.neg = b.neg THEN a ELSE NaN
  ELSE IF a.k = "inf" THEN a
  ELSE IF b.k = "inf" THEN b
  ELSE IF a.d = b.d THEN Frac(a.n + b.n, a.d)
  ELSE Rat(a.n * b.d + b.n * a.d, a.d * b.d)
XSub(a, b) == XAdd(a, XNeg(b))
XMul(a, b) ==
  IF a.k = "nan" \/ b.k = "nan" THEN NaN
  ELSE IF a.k = "inf" \/ b.k = "inf"
       THEN IF IsZero(a) \/ IsZero(b) THEN NaN
            ELSE [k |-> "inf", neg |-> IsNegative(a) # IsNegative(b)]
  ELSE Rat(a.n * b.n, a.d * b.d)
XDiv(a, b) ==
  IF a.k = "nan" \/ b.k = "nan" THEN NaN
  ELSE IF a.k = "inf"
       THEN IF b.k = "inf" THEN NaN
            ELSE [k |-> "inf", neg |-> a.neg # IsNegative(b)]
  ELSE IF b.k = "inf" THEN Num(0)
  ELSE IF b.n = 0
       THEN IF a.n = 0 THEN NaN ELSE [k |-> "inf", neg |-> a.n < 0]
  ELSE Rat((IF b.n < 0 THEN 0 - a.n ELSE a.n) * b.d, a.d * Abs(b.n))
\* a < b for numbers other than NaN
XLess(a, b) ==
  IF a.k = "inf" THEN a.neg /\ ~(b.k = "inf" /\ b.neg)
  ELSE IF b.k = "inf" THEN ~b.neg
  ELSE a.n * b.d < b.n * a.d
\* Math.min, Math.max
XMin(a, b) ==
  IF a.k = "nan" \/ b.k = "nan" THEN NaN ELSE IF XLess(b, a) THEN b ELSE a
XMax(a, b) ==
  IF a.k = "nan" \/ b.k = "nan" THEN NaN ELSE IF XLess(a, b) THEN b ELSE a
\* a coordinate of the model (quarter pixels) as a number of pixels
XOfCoord(q) == Frac(q, 4)

\* window._eagleEyeBounds after the first i step nodes of sn
RECURSIVE BoundsOver(_, _, _)
BoundsOver(st, sn, i) ==
  IF i = 0
  THEN [maxX |-> XOfCoord(rootColX(st) + Px(250)),
        minY |-> Infinity, maxY |-> NegInfinity]
  ELSE LET b == BoundsOver(st, sn, i - 1)
       IN  [b EXCEPT !.minY = XMin(@, XOfCoord(sn[i].y - Px(40))),
                     !.maxY = XMax(@, XOfCoord(sn[i].y + Px(40)))]

\* cont.clientWidth, cont.clientHeight of #treeContainer
clientWidth == 1200
clientHeight == 700

\* cy = (b.minY + b.maxY) / 2
FitCenterY(b) == XDiv(XAdd(b.minY, b.maxY), Num(2))

\* fitToScreen(instant) on graph state g: zoomBehavior is set by the render
\* that sets the bounds; zoomBehavior.transform applies t as it is, at once
\* or at the end of the transition
fitToScreen(st, g) ==
  IF g.bounds = Null \/ st.steps = <<>> THEN g
  ELSE
    LET b == Val(g.bounds)
        W == Num(clientWidth)
        H == Num(clientHeight)
        maxX == IF b.maxX.k = "nan" \/ IsZero(b.maxX) THEN Num(800)
                ELSE b.maxX
        cw == XAdd(maxX, Num(60))
        ch == XAdd(XSub(b.maxY, b.minY), Num(120))
        scale == XMul(XMin(XMin(XDiv(W, cw), XDiv(H, ch)), Frac(3, 2)),
                      Frac(22, 25))
        cx == XDiv(cw, Num(2))
        cy == FitCenterY(b)
    IN  [g EXCEPT !.zoomTransform =
           Some([k |-> scale,
                 x |-> XSub(XDiv(W, Num(2)), XMul(cx, scale)),
                 y |-> XSub(XDiv(H, Num(2)), XMul(cy, scale))])]

\* The graph-module and DOM state that renderGraph leaves behind.
Graph ==
  [allNodes |-> allNodes, positions |-> positions, stepDom |-> stepDom,
   linkDom |-> linkDom, partHexDom |-> partHexDom,
   partLinkDom |-> partLinkDom, bounds |-> bounds,
   zoomTransform |-> zoomTransform]

\* renderGraph on module state st, from graph state g.  svg.selectAll('*')
\* .remove() always runs; the two early returns keep _allNodes, the
\* position table, the bounds and the transform of the previous render; a
\* full render ends with fitToScreen(true).
renderGraph(st, g) ==
  LET cleared == [g EXCEPT !.stepDom = {}, !.linkDom = <<>>,
                           !.partHexDom = <<>>, !.partLinkDom = <<>>]
  IN  IF st.steps = <<>> THEN cleared
      ELSE
        LET layout == calculateTreeLayout(st)
        IN  IF layout.kind # "layout" THEN cleared
            ELSE
              LET nodes == layout.nodes
                  sn == StepNodesOf(nodes)
              IN  fitToScreen(st,
                    [allNodes |-> nodes,
                     positions |-> Some(PositionsOf(nodes)),
                     stepDom |-> {sn[i].dbId : i \in DOMAIN sn},
                     linkDom |-> RenderLinks(st, nodes, layout.links),
                     partHexDom |->
                       IF st.showPartNodes
                       THEN FlatMap(LAMBDA nd : RenderPartHexes(st, nd), sn)
                       ELSE <<>>,
                     partLinkDom |->
                       IF st.showPartNodes
                       THEN FlatMap(LAMBDA nd : RenderPartLinks(st, nd), sn)
                       ELSE <<>>,
                     bounds |-> Some(BoundsOver(st, sn, Len(sn))),
                     zoomTransform |-> g.zoomTransform])

\* the graph variables take the values of g
SetGraph(g) ==
  /\ allNodes' = g.allNodes
  /\ positions' = g.positions
  /\ stepDom' = g.stepDom
  /\ linkDom' = g.linkDom
  /\ partHexDom' = g.partHexDom
  /\ partLinkDom' = g.partLinkDom
  /\ bounds' = g.bounds
  /\ zoomTransform' = g.zoomTransform

\* ---------------------------------------------------- drag propagation
\* mutant of RecenterGroup: the group node keeps its y
RecenterGroupSkipped(nodes, d) == nodes

\* RECENTER GROUP: the first group node of d's group gets the midpoint of
\* the y of the step nodes of that group
RecenterGroup(nodes, d) ==
  LET sib == SelectSeq(nodes, LAMBDA n : n.isStep /\ n.groupId = d.groupId)
      sibYs == [i \in DOMAIN sib |-> sib[i].y]
      grpHits == {i \in DOMAIN nodes :
                    nodes[i].isGroup /\ nodes[i].groupId = d.groupId}
      gi == IF grpHits = {} THEN 0
            ELSE CHOOSE i \in grpHits : \A j \in grpHits : i <= j
  IN  IF gi # 0 /\ sibYs # <<>>
      THEN [nodes EXCEPT ![gi].y = MidOf(sibYs)]
      ELSE nodes

\* mutant of RecenterRoot: the root node keeps its y
RecenterRootSkipped(nodes) == nodes

\* RECENTER ROOT: the root node gets the midpoint of the group nodes' y
RecenterRoot(nodes) ==
  LET grps == SelectSeq(nodes, LAMBDA n : n.isGroup)
      gYs == [i \in DOMAIN grps |-> grps[i].y]
      rootHits == {i \in DOMAIN nodes : nodes[i].isRoot}
      ri == IF rootHits = {} THEN 0
            ELSE CHOOSE i \in rootHits : \A j \in rootHits : i <= j
  IN  IF ri # 0 /\ gYs # <<>>
      THEN [nodes EXCEPT ![ri].y = MidOf(gYs)]
      ELSE nodes

\* d.y = event.y on the node object of _allNodes, then the two recentrings
DragNodes(nodes, d, y) ==
  LET moved == [i \in DOMAIN nodes |->
                  IF nodes[i].id = d.id THEN [nodes[i] EXCEPT !.y = y]
                  ELSE nodes[i]]
  IN  RecenterRoot(RecenterGroup(moved, d))

\* parseFloat(fl.attr('data-labelpos')) || 0.5
StoredLabelT(labelpos) == IF labelpos = 0 THEN 10 ELSE labelpos

\* mutant of LabelCurve: the label is placed on the curve recorded in its
\* data-sx .. data-ty attributes, which are refreshed only afterwards
LabelCurveStale(fl, a) == [sx |-> fl.sx, sy |-> fl.sy, tx |-> fl.tx, ty |-> fl.ty]

\* the curve a label is placed on: the one just computed for its link
LabelCurve(fl, a) == a

\* UPDATE ALL BEZIER PATHS + FASTENER LABELS: one .link-group element
DragLink(nodes, lg) ==
  LET src == FindNode(nodes, lg.src)
      tgt == FindNode(nodes, lg.tgt)
  IN  IF src = Null \/ tgt = Null THEN lg
      ELSE
        LET a == LinkAnchors(Val(src), Val(tgt))
        IN  [lg EXCEPT
               !.path = bezierPath(a.sx, a.sy, a.tx, a.ty),
               !.label =
                 IF lg.label = Null THEN Null
                 ELSE LET fl == Val(lg.label)
                          t == StoredLabelT(fl.labelpos)
                          c == LabelCurve(fl, a)
                      IN  Some([fl EXCEPT
                                  !.at = bezierPoint(t, c.sx, c.sy, c.tx, c.ty),
                                  !.sx = a.sx, !.sy = a.sy,
                                  !.tx = a.tx, !.ty = a.ty])]

DragLinks(nodes, dom) == [i \in DOMAIN dom |-> DragLink(nodes, dom[i])]

\* mutant of DragPartHexes: the recorded offset of the part is not added
DragPartHexesNoOffset(d, dom) ==
  [i \in DOMAIN dom |->
     IF dom[i].stepid # d.dbId THEN dom[i]
     ELSE [dom[i] EXCEPT !.x = PartX(d), !.y = d.y]]

\* MOVE PART HEXAGONS: every .part-hex of the dragged step
DragPartHexes(d, dom) ==
  [i \in DOMAIN dom |->
     IF dom[i].stepid # d.dbId THEN dom[i]
     ELSE [dom[i] EXCEPT !.x = PartX(d), !.y = d.y + dom[i].offsety]]

\* every .part-link of the dragged step; pi2 counts the ones seen so far
DragPartLinks(st, d, dom) ==
  LET n == Len(PartsOf(st, d.dbId))
  IN  [i \in DOMAIN dom |->
         IF dom[i].stepid # d.dbId THEN dom[i]
         ELSE LET pi2 == Cardinality({j \in 1 .. (i - 1) :
                                        dom[j].stepid = d.dbId})
              IN  [dom[i] EXCEPT
                     !.d = PartLinkPath(d, PartX(d), PartY(d, n, pi2))]]

\* mutant of NodesForLinks: the curves are drawn from the node table as it
\* is before the group and the root are recentred
NodesForLinksStale(before, after, d, y) ==
  [i \in DOMAIN before |->
     IF before[i].id = d.id THEN [before[i] EXCEPT !.y = y] ELSE before[i]]

\* the node table that UPDATE ALL BEZIER PATHS reads: _allNodes after the
\* RECENTER GROUP and RECENTER ROOT blocks
NodesForLinks(before, after, d, y) == after

\* the drag handler on graph state g: the step node with dbId sid gets
\* event.y = y
DragUpdate(st, g, sid, y) ==
  LET d0 == Val(FindNode(g.allNodes, StepNodeId(sid)))
      d == [d0 EXCEPT !.y = y]
      nodes == DragNodes(g.allNodes, d0, y)
  IN  [allNodes |-> nodes,
       positions |-> IF d.dbId # 0
                     THEN Some([id \in DOMAIN Val(g.positions) \cup {d.dbId} |->
                                  IF id = d.dbId THEN [x |-> d.x, y |-> d.y]
                                  ELSE Val(g.positions)[id]])
                     ELSE g.positions,
       stepDom |-> g.stepDom,
       linkDom |-> DragLinks(NodesForLinks(g.allNodes, nodes, d0, y),
                             g.linkDom),
       partHexDom |-> IF st.showPartNodes
                      THEN DragPartHexes(d, g.partHexDom) ELSE g.partHexDom,
       partLinkDom |-> IF st.showPartNodes
                       THEN DragPartLinks(st, d, g.partLinkDom)
                       ELSE g.partLinkDom,
       bounds |-> g.bounds, zoomTransform |-> g.zoomTransform]

\* ------------------------------------------------- generated step links
\* if (!seen.has(k)) { links.push({...}); seen.add(k); }
AddLink(acc, assemblyId, parent, child) ==
  IF <<parent, child>> \in acc.seen THEN acc
  ELSE [links |-> Append(acc.links, [assembly_id |-> assemblyId,
                                      parent_step_id |-> parent,
                                      child_step_id |-> child]),
        seen |-> acc.seen \cup {<<parent, child>>}]

\* for (i = 0; i < gSteps.length - 1; i++): the first n pairs of the chain
RECURSIVE ChainLinks(_, _, _, _)
ChainLinks(acc, assemblyId, gSteps, n) ==
  IF n = 0 THEN acc
  ELSE AddLink(ChainLinks(acc, assemblyId, gSteps, n - 1), assemblyId,
               gSteps[n].id, gSteps[n + 1].id)

\* mutant of BridgeLink: no link is made to the next group
BridgeLinkSkipped(acc, assemblyId, gSteps, nextSteps) == acc

\* last step of this group -> first step of the next group
BridgeLink(acc, assemblyId, gSteps, nextSteps) ==
  IF Len(gSteps) > 0 /\ Len(nextSteps) > 0
  THEN AddLink(acc, assemblyId, gSteps[Len(gSteps)].id, nextSteps[1].id)
  ELSE acc

\* mutant of StepsOfGroup: the steps of the group in array order
StepsOfGroupUnsorted(stepRows, grp) ==
  SelectSeq(stepRows, LAMBDA r : r.group_id = grp.id)

StepsOfGroup(stepRows, grp) ==
  SortBySortOrder(SelectSeq(stepRows, LAMBDA r : r.group_id = grp.id))

\* sortedGroups.forEach over the first n groups
RECURSIVE LinksOfGroups(_, _, _, _)
LinksOfGroups(assemblyId, sortedGroups, stepRows, n) ==
  IF n = 0 THEN [links |-> <<>>, seen |-> {}]
  ELSE
    LET acc == LinksOfGroups(assemblyId, sortedGroups, stepRows, n - 1)
        gSteps == StepsOfGroup(stepRows, sortedGroups[n])
        chained == ChainLinks(acc, assemblyId, gSteps,
                              IF Len(gSteps) > 0 THEN Len(gSteps) - 1 ELSE 0)
    IN  IF n < Len(sortedGroups)
        THEN BridgeLink(chained, assemblyId, gSteps,
                        StepsOfGroup(stepRows, sortedGroups[n + 1]))
        ELSE chained

autoGenerateLinks(assemblyId, groupRows, stepRows, existingLinks) ==
  IF Len(existingLinks) > 0 THEN <<>>
  ELSE LET sortedGroups == SortBySortOrder(groupRows)
       IN  LinksOfGroups(assemblyId, sortedGroups, stepRows,
                         Len(sortedGroups)).links

\* ------------------------------------------------------------ the inputs
\* event.y of a drag
DragYs == {Px(400), Px(1000)}

\* a fastener row; its sort_order column can be null
Fastener(id, sid, so) ==
  IF so = 1
  THEN [id |-> id, step_id |-> sid, sort_order |-> Some(so),
        pn |-> Some("M6x20"),
        qty |-> 4, loctite |-> Some("243"), torque |-> Some("25Nm")]
  ELSE [id |-> id, step_id |-> sid, sort_order |-> Some(so),
        pn |-> Some("M8x30"),
        qty |-> 1, loctite |-> Some("---"), torque |-> Null]

\* The three kinds of step rows a load returns: never positioned and no
\* label position; positioned by an earlier session (whose x was not the
\* step column) with the label at 0.3; never positioned with the label at 0.
StepRow(i, gid, kind) ==
  [id |-> i, group_id |-> gid, sort_order |-> i,
   x |-> IF kind = 1 THEN Some(Px(500)) ELSE Null,
   y |-> IF kind = 1 THEN Some(Px(600)) ELSE Null,
   label_position |-> IF kind = 1 THEN Some(6)
                      ELSE IF kind = 2 THEN Some(0) ELSE Null,
   seq_tag |-> IF kind = 1 THEN Some("2b") ELSE Null,
   ecn_status |-> Null]
NumParts(kind) == IF kind = 0 THEN 1 ELSE IF kind = 1 THEN 2 ELSE 0
NumFasts(kind) == kind

\* loadAssemblyData: ng groups, ns steps dealt to the groups in turn (so a
\* group can be empty), the kind of step i being (i + v) % 3.
DataSet(ng, ns, v) ==
  LET kindOf(i) == (i + v) % 3
      stepIds == [i \in 1 .. ns |-> i]
  IN  [assy |-> Some([id |-> 1, tag |-> "HBD_assy"]),
       groups |-> [g \in 1 .. ng |-> [id |-> g, sort_order |-> g]],
       steps |-> [i \in 1 .. ns |-> StepRow(i, ((i - 1) % ng) + 1, kindOf(i))],
       parts |-> FlatMap(LAMBDA i :
                   [k \in 1 .. NumParts(kindOf(i)) |->
                      [id |-> 10 * i + k, step_id |-> i, sort_order |-> k,
                       pn |-> "P-100", qty |-> k]],
                   stepIds),
       fasts |-> FlatMap(LAMBDA i :
                   [k \in 1 .. NumFasts(kindOf(i)) |-> Fastener(10 * i + k, i, k)],
                   stepIds)]

DataSets ==
  {DataSet(ng, ns, v) : ng \in 1 .. MaxGroups, ns \in 1 .. MaxSteps, v \in 0 .. 2}

\* ------------------------------------------------------------- actions
StepIds == {steps[i].id : i \in DOMAIN steps}
GroupIds == {groups[i].id : i \in DOMAIN groups}

\* ecnChanges = {}
NoEcnChanges == [id \in {} |-> ""]

\* setData: `if (s.ecn_status) ecnChanges[s.id] = s.ecn_status`
EcnChangesOf(rows) ==
  LET marked == {rows[i].id : i \in {j \in DOMAIN rows :
                                       /\ rows[j].ecn_status # Null
                                       /\ rows[j].ecn_status # Some("")}}
  IN  [id \in marked |->
         LET i == CHOOSE j \in DOMAIN rows :
                    /\ rows[j].id = id
                    /\ \A k \in DOMAIN rows : rows[k].id = id => k <= j
         IN  Val(rows[i].ecn_status)]

Init ==
  /\ assy = Null /\ groups = <<>> /\ steps = <<>>
  /\ parts = <<>> /\ fasts = <<>> /\ stepLinks = <<>>
  /\ selectedStepId = Null
  /\ showPartNodes = TRUE /\ showFastenerLabels = TRUE
  /\ layoutDirty = FALSE
  /\ gap1 = 300 /\ gap2 = 240
  /\ visibleGroupIds = Null
  /\ currentView = "list"
  /\ allNodes = <<>> /\ positions = Null
  /\ stepDom = {} /\ linkDom = <<>> /\ partHexDom = <<>> /\ partLinkDom = <<>>
  /\ bounds = Null /\ zoomTransform = Null
  /\ dbPos = <<>>
  /\ saves = <<>>
  /\ nSaves = 0
  /\ dragY = <<>>
  /\ labelCalls = <<>> /\ nearestCall = Null
  /\ ecnMode = FALSE /\ ecnBrush = "remove" /\ ecnChanges = NoEcnChanges
  /\ fieldCalls = <<>>

UNCHANGED_data == UNCHANGED <<assy, groups, steps, parts, fasts, stepLinks>>
UNCHANGED_graph ==
  UNCHANGED <<allNodes, positions, stepDom, linkDom, partHexDom, partLinkDom,
              bounds, zoomTransform>>
UNCHANGED_db == UNCHANGED <<dbPos, saves, nSaves>>
UNCHANGED_label == UNCHANGED <<labelCalls, nearestCall>>
UNCHANGED_ecn == UNCHANGED <<ecnMode, ecnBrush, ecnChanges>>
UNCHANGED_edits == UNCHANGED fieldCalls

\* init(): setData(await loadAssemblyData()) then switchView('list').  The
\* rows of the loaded steps are what the store holds for them.  The store
\* holds no step link at the first load: init() generates the links, creates
\* them and loads again, so that state.stepLinks ends as the generated links.
SetData(data) ==
  /\ assy = Null
  /\ assy' = data.assy /\ groups' = data.groups /\ steps' = data.steps
  /\ parts' = data.parts /\ fasts' = data.fasts
  /\ stepLinks' = autoGenerateLinks(Val(data.assy).id, data.groups,
                                    data.steps, <<>>)
  /\ dbPos' = [id \in {data.steps[i].id : i \in DOMAIN data.steps} |->
                LET s == CHOOSE r \in SeqToSet(data.steps) : r.id = id
                IN  [x |-> s.x, y |-> s.y, saved |-> FALSE]]
  /\ dragY' = [id \in {data.steps[i].id : i \in DOMAIN data.steps} |-> Null]
  /\ currentView' = "list"
  /\ UNCHANGED <<selectedStepId, showPartNodes, showFastenerLabels, layoutDirty,
                 gap1, gap2, visibleGroupIds, saves, nSaves>>
  /\ UNCHANGED_graph /\ UNCHANGED_label
  /\ ecnChanges' = EcnChangesOf(data.steps)
  /\ UNCHANGED <<ecnMode, ecnBrush>> /\ UNCHANGED_edits

\* `if (currentView === 'graph') renderGraph()` on the state after the step
RenderIfGraph(st, view) ==
  IF view = "graph" THEN SetGraph(renderGraph(st, Graph)) ELSE UNCHANGED_graph

\* `if (currentView === 'graph') { renderGraph(); fitToScreen(false); }`
RenderAndFitIfGraph(st, view) ==
  IF view = "graph" THEN SetGraph(fitToScreen(st, renderGraph(st, Graph)))
  ELSE UNCHANGED_graph

\* switchView(view): the tab click
SwitchView(view) ==
  /\ assy # Null
  /\ currentView' = view
  /\ RenderIfGraph(State, view)
  /\ UNCHANGED <<selectedStepId, showPartNodes, showFastenerLabels, layoutDirty,
                 gap1, gap2, visibleGroupIds, dragY>>
  /\ UNCHANGED_data /\ UNCHANGED_db /\ UNCHANGED_label
  /\ UNCHANGED_ecn /\ UNCHANGED_edits

\* window resize: re-render when the graph is shown and steps are loaded
Resize ==
  /\ currentView = "graph" /\ steps # <<>>
  /\ SetGraph(renderGraph(State, Graph))
  /\ UNCHANGED <<selectedStepId, showPartNodes, showFastenerLabels, layoutDirty,
                 gap1, gap2, visibleGroupIds, currentView, dragY>>
  /\ UNCHANGED_data /\ UNCHANGED_db /\ UNCHANGED_label
  /\ UNCHANGED_ecn /\ UNCHANGED_edits

\* partsToggle click
TogglePartNodes ==
  /\ assy # Null
  /\ showPartNodes' = ~showPartNodes
  /\ RenderIfGraph([State EXCEPT !.showPartNodes = ~showPartNodes], currentView)
  /\ UNCHANGED <<selectedStepId, showFastenerLabels, layoutDirty,
                 gap1, gap2, visibleGroupIds, currentView, dragY>>
  /\ UNCHANGED_data /\ UNCHANGED_db /\ UNCHANGED_label
  /\ UNCHANGED_ecn /\ UNCHANGED_edits

\* click on a step node (ECN mode off): select or unselect, then re-render
ClickStep(sid) ==
  /\ currentView = "graph" /\ sid \in stepDom
  /\ LET sel == IF selectedStepId = Some(sid) THEN Null ELSE Some(sid)
     IN  /\ selectedStepId' = sel
         /\ SetGraph(renderGraph([State EXCEPT !.selectedStepId = sel], Graph))
  /\ UNCHANGED <<showPartNodes, showFastenerLabels, layoutDirty,
                 gap1, gap2, visibleGroupIds, currentView, dragY>>
  /\ UNCHANGED_data /\ UNCHANGED_db /\ UNCHANGED_label
  /\ UNCHANGED_ecn /\ UNCHANGED_edits

\* click on the svg background (the handler is attached by a full render)
ClickBackground ==
  /\ currentView = "graph" /\ allNodes # <<>>
  /\ selectedStepId' = Null
  /\ SetGraph(renderGraph([State EXCEPT !.selectedStepId = Null], Graph))
  /\ UNCHANGED <<showPartNodes, showFastenerLabels, layoutDirty,
                 gap1, gap2, visibleGroupIds, currentView, dragY>>
  /\ UNCHANGED_data /\ UNCHANGED_db /\ UNCHANGED_label
  /\ UNCHANGED_ecn /\ UNCHANGED_edits

\* toggleGroupFilter(gid): a filter chip (the chip bar shows in graph view)
NextVisible(gid) ==
  IF visibleGroupIds = Null THEN Some({gid})
  ELSE IF gid \in Val(visibleGroupIds)
       THEN LET next == Val(visibleGroupIds) \ {gid}
            IN  IF Cardinality(next) = 0 THEN Null ELSE Some(next)
       ELSE LET next == Val(visibleGroupIds) \cup {gid}
            IN  IF Cardinality(next) = Len(groups) THEN Null ELSE Some(next)

ToggleGroupFilter(gid) ==
  /\ currentView = "graph" /\ gid \in GroupIds
  /\ visibleGroupIds' = NextVisible(gid)
  /\ RenderAndFitIfGraph([State EXCEPT !.visibleGroupIds = NextVisible(gid)],
                         currentView)
  /\ UNCHANGED <<selectedStepId, showPartNodes, showFastenerLabels, layoutDirty,
                 gap1, gap2, currentView, dragY>>
  /\ UNCHANGED_data /\ UNCHANGED_db /\ UNCHANGED_label
  /\ UNCHANGED_ecn /\ UNCHANGED_edits

\* the 'All' filter button
FilterAll ==
  /\ currentView = "graph" /\ assy # Null
  /\ visibleGroupIds' = Null
  /\ RenderAndFitIfGraph([State EXCEPT !.visibleGroupIds = Null],
                         currentView)
  /\ UNCHANGED <<selectedStepId, showPartNodes, showFastenerLabels, layoutDirty,
                 gap1, gap2, currentView, dragY>>
  /\ UNCHANGED_data /\ UNCHANGED_db /\ UNCHANGED_label
  /\ UNCHANGED_ecn /\ UNCHANGED_edits

\* one drag event on the step node of sid with event.y = y
Drag(sid, y) ==
  /\ currentView = "graph" /\ sid \in stepDom
  /\ SetGraph(DragUpdate(State, Graph, sid, y))
  /\ layoutDirty' = TRUE
  /\ dragY' = [dragY EXCEPT ![sid] = Some(y)]
  /\ UNCHANGED <<selectedStepId, showPartNodes, showFastenerLabels,
                 gap1, gap2, visibleGroupIds, currentView>>
  /\ UNCHANGED_data /\ UNCHANGED_db /\ UNCHANGED_label
  /\ UNCHANGED_ecn /\ UNCHANGED_edits

\* Object.entries(posMap): integer keys in ascending order, each with the
\* {x, y} object the table held when savePositions was called
RECURSIVE EntriesOf(_, _)
EntriesOf(pos, ids) ==
  IF ids = {} THEN <<>>
  ELSE LET id == CHOOSE i \in ids : \A j \in ids : i <= j
       IN  <<[id |-> id, x |-> pos[id].x, y |-> pos[id].y]>>
           \o EntriesOf(pos, ids \ {id})

\* handleSave up to its await: savePositions(pos) starts its loop.  Three
\* fields are history: want is the last dragged y of every step at the call,
\* alone tells that no other Save was in flight during this one, oks lists
\* the outcome (no error) of each row update made so far.
HandleSave ==
  /\ positions # Null
  /\ nSaves < MaxSaves
  /\ nSaves' = nSaves + 1
  /\ saves' = Append([k \in DOMAIN saves |-> [saves[k] EXCEPT !.alone = FALSE]],
                [entries |-> EntriesOf(Val(positions), DOMAIN Val(positions)),
                 i |-> 0, count |-> 0, oks |-> <<>>,
                 want |-> dragY, alone |-> (saves = <<>>)])
  /\ UNCHANGED <<selectedStepId, showPartNodes, showFastenerLabels, layoutDirty,
                 gap1, gap2, visibleGroupIds, currentView, dragY, dbPos>>
  /\ UNCHANGED_data /\ UNCHANGED_graph /\ UNCHANGED_label
  /\ UNCHANGED_ecn /\ UNCHANGED_edits

\* mutant of RowCount: a row is counted whatever its update returned
RowCountAll(count, ok) == count + 1

\* if (!error) count++
RowCount(count, ok) == IF ok THEN count + 1 ELSE count

\* savePositions: the update of the next row resolves, with or without error
SaveRow(k, ok) ==
  /\ k \in DOMAIN saves
  /\ saves[k].i < Len(saves[k].entries)
  /\ LET e == saves[k].entries[saves[k].i + 1]
     IN  /\ dbPos' = IF ok /\ e.id \in DOMAIN dbPos
                     THEN [dbPos EXCEPT ![e.id] =
                             [x |-> Some(e.x), y |-> Some(e.y), saved |-> TRUE]]
                     ELSE dbPos
         /\ saves' = [saves EXCEPT ![k].i = @ + 1,
                                   ![k].count = RowCount(@, ok),
                                   ![k].oks = Append(@, ok)]
  /\ UNCHANGED <<selectedStepId, showPartNodes, showFastenerLabels, layoutDirty,
                 gap1, gap2, visibleGroupIds, currentView, dragY, nSaves>>
  /\ UNCHANGED_data /\ UNCHANGED_graph /\ UNCHANGED_label
  /\ UNCHANGED_ecn /\ UNCHANGED_edits

RemoveAt(s, k) == SubSeq(s, 1, k - 1) \o SubSeq(s, k + 1, Len(s))

\* handleSave after its await: savePositions returned count
SaveDone(k) ==
  /\ k \in DOMAIN saves
  /\ saves[k].i = Len(saves[k].entries)
  /\ layoutDirty' = FALSE
  /\ saves' = RemoveAt(saves, k)
  /\ UNCHANGED <<selectedStepId, showPartNodes, showFastenerLabels,
                 gap1, gap2, visibleGroupIds, currentView, dragY, dbPos,
                 nSaves>>
  /\ UNCHANGED_data /\ UNCHANGED_graph /\ UNCHANGED_label
  /\ UNCHANGED_ecn /\ UNCHANGED_edits

\* ------------------------------------------------- the label drag gesture
\* event.x, event.y of a drag event on a label: a point before the start of
\* its curve, the middle of the curve, a point beyond its end
LabelCursors == {"before", "middle", "beyond"}
LabelCursor(fl, c) ==
  IF c = "before" THEN [x |-> fl.sx - Px(100), y |-> fl.sy]
  ELSE IF c = "middle"
       THEN [x |-> (fl.sx + fl.tx) \div 2, y |-> (fl.sy + fl.ty) \div 2]
       ELSE [x |-> fl.tx + Px(100), y |-> fl.ty]

\* Math.max(0.05, Math.min(0.95, newT)), in 1/1000
ClampT(t) == Max2(50, Min2(950, t))

\* a parameter in 1/1000 as the 1/20 that the label elements hold
T20OfT1000(t) == t \div 50

\* The curves of the labels that a render of loaded data draws, and nearestT
\* for each cursor on each of them (the values are the same in every state,
\* so they are computed once).
LabelCurveOf(fl) == [sx |-> fl.sx, sy |-> fl.sy, tx |-> fl.tx, ty |-> fl.ty]
RenderedLabelCurves ==
  UNION {LET st == [assy |-> data.assy, groups |-> data.groups,
                    steps |-> data.steps, parts |-> data.parts,
                    fasts |-> data.fasts, selectedStepId |-> Null,
                    showPartNodes |-> TRUE, showFastenerLabels |-> TRUE,
                    gap1 |-> 300, gap2 |-> 240, visibleGroupIds |-> Null]
             layout == calculateTreeLayout(st)
             dom == RenderLinks(st, layout.nodes, layout.links)
         IN  {LabelCurveOf(Val(dom[i].label)) :
                i \in {j \in DOMAIN dom : dom[j].label # Null}}
         : data \in DataSets}
NearestOnLabels ==
  {[curve |-> cv, cursor |-> c,
    ts |-> LET q == LabelCursor(cv, c)
           IN  nearestT(q.x, q.y, cv.sx, cv.sy, cv.tx, cv.ty)] :
     cv \in RenderedLabelCurves, c \in LabelCursors}
NearestOnLabel(fl, c) ==
  (CHOOSE e \in NearestOnLabels :
     e.curve = LabelCurveOf(fl) /\ e.cursor = c).ts

\* labelDrag 'drag': the label element i moves to the curve point nearest to
\* the cursor.  The cursors of the model give parameters that are whole
\* twentieths.
LabelDragMove(i, c) ==
  /\ currentView = "graph"
  /\ i \in DOMAIN linkDom /\ linkDom[i].label # Null
  /\ LET fl == Val(linkDom[i].label)
     IN  \E r \in NearestOnLabel(fl, c) :
           LET newT == ClampT(r)
           IN  /\ newT % 50 = 0
               /\ linkDom' =
                    [linkDom EXCEPT ![i].label =
                       Some([fl EXCEPT
                               !.at = bezierPoint(T20OfT1000(newT),
                                                  fl.sx, fl.sy, fl.tx, fl.ty),
                               !.labelpos = T20OfT1000(newT)])]
  /\ UNCHANGED <<selectedStepId, showPartNodes, showFastenerLabels, layoutDirty,
                 gap1, gap2, visibleGroupIds, currentView, dragY,
                 allNodes, positions, stepDom, partHexDom, partLinkDom,
                 bounds, zoomTransform>>
  /\ UNCHANGED_data /\ UNCHANGED_db /\ UNCHANGED_label
  /\ UNCHANGED_ecn /\ UNCHANGED_edits

\* labelDrag 'end', up to the call: updateLabelPosition(stepId, finalT) is
\* sent with the data-labelpos of the element.  The field newer of a call is
\* history: the t of the latest later-ended drag of the same step whose call
\* has already resolved without error.  d3-drag dispatches 'end' at
\* mouseup for every gesture, also for one without a 'drag' event.
LabelDragEnd(i) ==
  /\ currentView = "graph"
  /\ i \in DOMAIN linkDom /\ linkDom[i].label # Null
  /\ Len(labelCalls) < MaxLabelCalls
  /\ LET fl == Val(linkDom[i].label)
     IN  labelCalls' = Append(labelCalls,
                              [stepId |-> fl.stepid, finalT |-> fl.labelpos,
                               newer |-> Null])
  /\ UNCHANGED <<selectedStepId, showPartNodes, showFastenerLabels, layoutDirty,
                 gap1, gap2, visibleGroupIds, currentView, dragY, nearestCall>>
  /\ UNCHANGED_data /\ UNCHANGED_graph /\ UNCHANGED_db
  /\ UNCHANGED_ecn /\ UNCHANGED_edits

\* mutant of StoreLabelPosition: the step is updated whatever the call
\* returned
StoreLabelPositionAlways(rows, stepId, finalT, ok) ==
  [j \in DOMAIN rows |->
     IF rows[j].id = stepId
     THEN [rows[j] EXCEPT !.label_position = Some(finalT)] ELSE rows[j]]

\* .then(function(ok) { if (ok) { ... step.label_position = finalT; } })
StoreLabelPosition(rows, stepId, finalT, ok) ==
  IF ok
  THEN [j \in DOMAIN rows |->
          IF rows[j].id = stepId
          THEN [rows[j] EXCEPT !.label_position = Some(finalT)] ELSE rows[j]]
  ELSE rows

\* history: call k has resolved; the calls of the same step that were sent
\* before it learn the t of the latest drag that has been stored
NoteNewer(calls, k, ok) ==
  [i \in DOMAIN calls |->
     IF ok /\ i < k /\ calls[i].stepId = calls[k].stepId
     THEN [calls[i] EXCEPT !.newer = IF calls[k].newer # Null THEN calls[k].newer
                                     ELSE Some(calls[k].finalT)]
     ELSE calls[i]]

\* updateLabelPosition resolves with ok = !error; the calls in flight
\* resolve in any order
LabelCallDone(k, ok) ==
  /\ k \in DOMAIN labelCalls
  /\ steps' = StoreLabelPosition(steps, labelCalls[k].stepId,
                                 labelCalls[k].finalT, ok)
  /\ labelCalls' = RemoveAt(NoteNewer(labelCalls, k, ok), k)
  /\ UNCHANGED <<assy, groups, parts, fasts, stepLinks,
                 selectedStepId, showPartNodes, showFastenerLabels, layoutDirty,
                 gap1, gap2, visibleGroupIds, currentView, dragY, nearestCall>>
  /\ UNCHANGED_graph /\ UNCHANGED_db
  /\ UNCHANGED_ecn /\ UNCHANGED_edits

\* The interactive graph session: load, view switch, resize, toggles, clicks,
\* filter chips and drags.  The persistence actions below write only
\* layoutDirty, dbPos, saves and nSaves, which none of these actions reads,
\* so they are left to SpecSave.
Next ==
  \/ \E data \in DataSets : SetData(data)
  \/ \E view \in {"list", "graph"} : SwitchView(view)
  \/ Resize
  \/ TogglePartNodes
  \/ \E sid \in StepIds : ClickStep(sid)
  \/ ClickBackground
  \/ \E gid \in GroupIds : ToggleGroupFilter(gid)
  \/ FilterAll
  \/ \E sid \in StepIds, y \in DragYs : Drag(sid, y)

Spec == Init /\ [][Next]_vars

\* The session with position saving: load, view switch, resize (a re-render
\* with no change of state), drags, Save and the asynchronous row writes.
NextSave ==
  \/ \E data \in DataSets : SetData(data)
  \/ \E view \in {"list", "graph"} : SwitchView(view)
  \/ Resize
  \/ \E sid \in StepIds, y \in DragYs : Drag(sid, y)
  \/ HandleSave
  \/ \E k \in 1 .. MaxSaves, ok \in BOOLEAN : SaveRow(k, ok)
  \/ \E k \in 1 .. MaxSaves : SaveDone(k)

SpecSave == Init /\ [][NextSave]_vars

\* Saving the positions of a layout as rendered: load, view switch, Save
\* and the row writes.
NextWrite ==
  \/ \E data \in DataSets : SetData(data)
  \/ \E view \in {"list", "graph"} : SwitchView(view)
  \/ HandleSave
  \/ \E k \in 1 .. MaxSaves, ok \in BOOLEAN : SaveRow(k, ok)
  \/ \E k \in 1 .. MaxSaves : SaveDone(k)

SpecWrite == Init /\ [][NextWrite]_vars

\* The session with label drags: load, view switch, the label gestures and
\* the asynchronous label position writes.
NextLabel ==
  \/ \E data \in DataSets : SetData(data)
  \/ \E view \in {"list", "graph"} : SwitchView(view)
  \/ \E i \in DOMAIN linkDom, c \in LabelCursors : LabelDragMove(i, c)
  \/ \E i \in DOMAIN linkDom : LabelDragEnd(i)
  \/ \E k \in 1 .. MaxLabelCalls, ok \in BOOLEAN : LabelCallDone(k, ok)

SpecLabel == Init /\ [][NextLabel]_vars

\* The layout as a function of its inputs: any loaded data (also none, and
\* groups without steps) under any filter a session can hold.  A filter can
\* name groups the data no longer has: reload() replaces the data and keeps
\* visibleGroupIds.
LayoutDataSets ==
  {DataSet(t[1], t[2], t[3]) :
     t \in {u \in (0 .. MaxGroups) \X (0 .. MaxSteps) \X (0 .. 2) :
              u[1] = 0 => u[2] = 0}}

LayoutFilters ==
  {Null} \cup {Some(F) : F \in (SUBSET (1 .. MaxGroups + 1)) \ {{}}}

InitLayout ==
  \E data \in LayoutDataSets, filter \in LayoutFilters :
    /\ assy = data.assy /\ groups = data.groups /\ steps = data.steps
    /\ parts = data.parts /\ fasts = data.fasts
    /\ stepLinks = autoGenerateLinks(Val(data.assy).id, data.groups,
                                     data.steps, <<>>)
    /\ selectedStepId = Null
    /\ showPartNodes = TRUE /\ showFastenerLabels = TRUE
    /\ layoutDirty = FALSE
    /\ gap1 = 300 /\ gap2 = 240
    /\ visibleGroupIds = filter
    /\ currentView = "list"
    /\ allNodes = <<>> /\ positions = Null
    /\ stepDom = {} /\ linkDom = <<>> /\ partHexDom = <<>> /\ partLinkDom = <<>>
    /\ bounds = Null /\ zoomTransform = Null
    /\ dbPos = [id \in {data.steps[i].id : i \in DOMAIN data.steps} |->
                 LET s == CHOOSE r \in SeqToSet(data.steps) : r.id = id
                 IN  [x |-> s.x, y |-> s.y, saved |-> FALSE]]
    /\ saves = <<>>
    /\ nSaves = 0
    /\ dragY = [id \in {data.steps[i].id : i \in DOMAIN data.steps} |-> Null]
    /\ labelCalls = <<>> /\ nearestCall = Null
    /\ ecnMode = FALSE /\ ecnBrush = "remove"
    /\ ecnChanges = EcnChangesOf(data.steps)
    /\ fieldCalls = <<>>

NextLayout ==
  \/ \E view \in {"list", "graph"} : SwitchView(view)
  \/ Resize
  \/ \E gid \in GroupIds : ToggleGroupFilter(gid)
  \/ FilterAll

SpecLayout == InitLayout /\ [][NextLayout]_vars

\* nearestT as a function of its arguments: the query points and the curves
\* of a call, and the call itself.
NearestQueries ==
  {<<x, y>> : x \in {1155, 1300, 1435, 1740, 5000},
              y \in {600, 1000, 1400, 5000}}
NearestCurves ==
  {[sx |-> 1180, sy |-> 600, tx |-> 1740, ty |-> 600],
   [sx |-> 1180, sy |-> 600, tx |-> 1740, ty |-> 1600],
   [sx |-> 1180, sy |-> 4000, tx |-> 1740, ty |-> 2300]}

InitNearest ==
  /\ assy = Null /\ groups = <<>> /\ steps = <<>>
  /\ parts = <<>> /\ fasts = <<>> /\ stepLinks = <<>>
  /\ selectedStepId = Null
  /\ showPartNodes = TRUE /\ showFastenerLabels = TRUE
  /\ layoutDirty = FALSE
  /\ gap1 = 300 /\ gap2 = 240
  /\ visibleGroupIds = Null
  /\ currentView = "list"
  /\ allNodes = <<>> /\ positions = Null
  /\ stepDom = {} /\ linkDom = <<>> /\ partHexDom = <<>> /\ partLinkDom = <<>>
  /\ bounds = Null /\ zoomTransform = Null
  /\ dbPos = <<>> /\ saves = <<>> /\ nSaves = 0 /\ dragY = <<>>
  /\ labelCalls = <<>>
  /\ ecnMode = FALSE /\ ecnBrush = "remove" /\ ecnChanges = NoEcnChanges
  /\ fieldCalls = <<>>
  /\ \E q \in NearestQueries, c \in NearestCurves :
       nearestCall = Some([px |-> q[1], py |-> q[2], curve |-> c, t |-> Null])

\* the call returns
NearestReturn ==
  /\ nearestCall # Null /\ Val(nearestCall).t = Null
  /\ LET a == Val(nearestCall)
     IN  \E r \in nearestT(a.px, a.py, a.curve.sx, a.curve.sy,
                           a.curve.tx, a.curve.ty) :
           nearestCall' = Some([a EXCEPT !.t = Some(r)])
  /\ UNCHANGED <<selectedStepId, showPartNodes, showFastenerLabels, layoutDirty,
                 gap1, gap2, visibleGroupIds, currentView, dragY, labelCalls>>
  /\ UNCHANGED_data /\ UNCHANGED_graph /\ UNCHANGED_db
  /\ UNCHANGED_ecn /\ UNCHANGED_edits

NextNearest == NearestReturn

SpecNearest == InitNearest /\ [][NextNearest]_vars

\* ================================================================ claims
StepNodes == StepNodesOf(allNodes)
GroupNodes == SelectSeq(allNodes, LAMBDA n : n.isGroup)
RootNodes == SelectSeq(allNodes, LAMBDA n : n.isRoot)
YsOf(ns) == [i \in DOMAIN ns |-> ns[i].y]
StepNodesIn(gid) == SelectSeq(allNodes, LAMBDA n : n.isStep /\ n.groupId = gid)
IsDrag == \E sid \in StepIds, y \in DragYs : Drag(sid, y)

\* C1: once a step has been dragged to y, the node table holds that step at
\* y in every later state of the session, whatever re-renders the graph.
C1_DraggedStepKeepsY ==
  \A i \in DOMAIN allNodes :
    (allNodes[i].isStep /\ dragY[allNodes[i].dbId] # Null)
      => allNodes[i].y = Val(dragY[allNodes[i].dbId])

\* C2: whenever layoutDirty is false, the position table entry of every
\* displayed step that a Save has written equals the row last written.
C2_CleanMeansSaved ==
  (layoutDirty = FALSE /\ positions # Null) =>
    \A sid \in DOMAIN Val(positions) :
      dbPos[sid].saved =>
        /\ Some(Val(positions)[sid].x) = dbPos[sid].x
        /\ Some(Val(positions)[sid].y) = dbPos[sid].y

\* C3: a Save that ends with fewer rows written than submitted leaves
\* layoutDirty true.
C3_DirtyKeptOnPartialSave ==
  [][\A k \in DOMAIN saves :
       (/\ saves[k].i = Len(saves[k].entries)
        /\ saves' = RemoveAt(saves, k)
        /\ saves[k].count < Len(saves[k].entries)
        /\ layoutDirty)
         => layoutDirty']_vars

\* C4: every group node with a displayed step is at the midpoint of the
\* least and greatest y of its step nodes, and the root node is at the
\* midpoint of the least and greatest y of the group nodes.
C4_CentroidInvariant ==
  /\ \A i \in DOMAIN GroupNodes :
       LET ys == YsOf(StepNodesIn(GroupNodes[i].groupId))
       IN  ys # <<>> => 2 * GroupNodes[i].y = MinOf(ys) + MaxOf(ys)
  /\ \A i \in DOMAIN RootNodes :
       GroupNodes # <<>> =>
         2 * RootNodes[i].y = MinOf(YsOf(GroupNodes)) + MaxOf(YsOf(GroupNodes))

\* a drag has moved a step of a group that shows two steps at different y
C4_Witness ==
  \E i \in DOMAIN GroupNodes :
    LET sn == StepNodesIn(GroupNodes[i].groupId)
    IN  /\ \E j \in DOMAIN sn : dragY[sn[j].dbId] = Some(sn[j].y)
        /\ \E j, k \in DOMAIN sn : sn[j].y # sn[k].y

\* C5: every step node, and every entry of the position table, has the x
\* of the step column, whatever x the step row carries.
C5_StepColumnLocked ==
  /\ \A i \in DOMAIN StepNodes : StepNodes[i].x = stepColX
  /\ positions # Null =>
       \A sid \in DOMAIN Val(positions) : Val(positions)[sid].x = stepColX

\* a step whose row carries another x has been dragged
C5_Witness ==
  \E i \in DOMAIN StepNodes :
    /\ dragY[StepNodes[i].dbId] = Some(StepNodes[i].y)
    /\ \E j \in DOMAIN steps :
         /\ steps[j].id = StepNodes[i].dbId
         /\ steps[j].x # Null /\ steps[j].x # Some(stepColX)

\* the anchor of every drawn label is the point of its link's current curve
\* at the t recorded on the label
LabelsAtStoredT(nodes, dom) ==
  \A i \in DOMAIN dom :
    dom[i].label # Null =>
      LET fl == Val(dom[i].label)
          a == LinkAnchors(Val(FindNode(nodes, dom[i].src)),
                           Val(FindNode(nodes, dom[i].tgt)))
      IN  fl.at = bezierPoint(fl.labelpos, a.sx, a.sy, a.tx, a.ty)

LabelTs(dom) ==
  [i \in DOMAIN dom |->
     IF dom[i].label = Null THEN Null ELSE Some(Val(dom[i].label).labelpos)]

\* C6: a step drag leaves every recorded label t and every step's
\* label_position as they were, and puts each label at the point of the new
\* curve at its recorded t.
C6_LabelKeepsStoredT ==
  [][IsDrag => /\ LabelTs(linkDom') = LabelTs(linkDom)
               /\ steps' = steps
               /\ LabelsAtStoredT(allNodes', linkDom')]_vars

\* C7: the drag update applied twice with the same step and y gives the
\* node table, link curves, label anchors and part positions of one
\* application.
C7_DragIdempotent ==
  \A sid \in stepDom, y \in DragYs :
    LET once == DragUpdate(State, Graph, sid, y)
    IN  DragUpdate(State, once, sid, y) = once

\* a step with a drawn label and part nodes has been dragged
C7_Witness ==
  \E i \in DOMAIN StepNodes :
    /\ dragY[StepNodes[i].dbId] = Some(StepNodes[i].y)
    /\ \E j \in DOMAIN linkDom :
         linkDom[j].src = StepNodes[i].id /\ linkDom[j].label # Null
    /\ \E j \in DOMAIN partHexDom : partHexDom[j].stepid = StepNodes[i].dbId

XYOf(nodes) == [i \in DOMAIN nodes |-> <<nodes[i].id, nodes[i].x, nodes[i].y>>]

\* the steps the drag handler has moved since the table was built
DraggedInTable ==
  {StepNodes[i].dbId : i \in {j \in DOMAIN StepNodes :
                               dragY[StepNodes[j].dbId] = Some(StepNodes[j].y)}}

\* the module state with the final y of each of them as its pinned y
StateWithDragsPinned ==
  [State EXCEPT !.steps =
     [i \in DOMAIN steps |->
        IF steps[i].id \in DraggedInTable
        THEN [steps[i] EXCEPT !.y = dragY[steps[i].id]]
        ELSE steps[i]]]

\* C8: the x and y of the node table kept by the drag handler are those of
\* a full layout of the same data and filter in which every dragged step
\* has its final y as pinned coordinate.
C8_DragAgreesWithLayout ==
  allNodes # <<>> =>
    /\ calculateTreeLayout(StateWithDragsPinned).kind = "layout"
    /\ XYOf(allNodes) = XYOf(calculateTreeLayout(StateWithDragsPinned).nodes)

\* two steps are at dragged positions in a table with two group nodes, or
\* in one group
C8_Witness ==
  /\ Cardinality(DraggedInTable) >= 2
  /\ \E i, j \in DOMAIN StepNodes : StepNodes[i].y # StepNodes[j].y

\* C9: a drag writes nothing to the store; and a Save that was alone in
\* flight and wrote every row leaves, for every step dragged before it, the
\* y of the step's last drag in the step's row.
C9_SavePersistsLastDrag ==
  [][/\ IsDrag => (dbPos' = dbPos /\ saves' = saves)
     /\ \A k \in DOMAIN saves :
          (/\ saves[k].i = Len(saves[k].entries)
           /\ saves' = RemoveAt(saves, k)
           /\ saves[k].count = Len(saves[k].entries)
           /\ saves[k].alone)
            => \A sid \in DOMAIN saves[k].want :
                 saves[k].want[sid] # Null => dbPos'[sid].y = saves[k].want[sid]]_vars

\* the groups the filter lets through
VisibleGroupIds ==
  IF visibleGroupIds = Null THEN GroupIds ELSE GroupIds \cap Val(visibleGroupIds)

\* C10: calculateTreeLayout returns null exactly when there are no groups,
\* no steps, or a filter that lets no group through; otherwise it returns a
\* layout with one group node per visible group and one root node; it never
\* throws.
C10_NullExactlyWhenNothingToDraw ==
  LET layout == calculateTreeLayout(State)
      gn == IF layout.kind = "layout"
            THEN SelectSeq(layout.nodes, LAMBDA n : n.isGroup) ELSE <<>>
      rn == IF layout.kind = "layout"
            THEN SelectSeq(layout.nodes, LAMBDA n : n.isRoot) ELSE <<>>
  IN  /\ layout.kind # "throw"
      /\ (layout.kind = "null") <=>
           (groups = <<>> \/ steps = <<>> \/ VisibleGroupIds = {})
      /\ layout.kind = "layout" =>
           /\ Len(gn) = Cardinality(VisibleGroupIds)
           /\ {gn[i].groupId : i \in DOMAIN gn} = VisibleGroupIds
           /\ Len(rn) = 1

\* the graph view was rendered with groups and steps loaded under a filter
\* that lets no group through
C10_Witness ==
  /\ currentView = "graph" /\ groups # <<>> /\ steps # <<>>
  /\ visibleGroupIds # Null /\ VisibleGroupIds = {}
  /\ calculateTreeLayout(State).kind = "null"

IdsOf(nodes) == [i \in DOMAIN nodes |-> nodes[i].id]
GroupIdsOf(nodes) ==
  LET gn == SelectSeq(nodes, LAMBDA n : n.isGroup)
  IN  [i \in DOMAIN gn |-> gn[i].groupId]

\* the layout of the current data with the filter reset to null
UnfilteredLayout == calculateTreeLayout([State EXCEPT !.visibleGroupIds = Null])

\* C11: under a filter F the layout holds exactly the step nodes of the
\* groups of F, the group nodes of F in the order they have in the
\* unfiltered layout, and the root; both ends of every link are nodes of the
\* layout; and a render with the filter back at null shows the node set of
\* the unfiltered layout.
C11_FilterSelectsSubtree ==
  LET layout == calculateTreeLayout(State)
  IN  /\ layout.kind = "layout" =>
           LET nodes == layout.nodes
               sn == StepNodesOf(nodes)
               ids == SeqToSet(IdsOf(nodes))
           IN  /\ {sn[i].dbId : i \in DOMAIN sn} =
                    {steps[i].id : i \in {j \in DOMAIN steps :
                                            steps[j].group_id \in VisibleGroupIds}}
               /\ Cardinality(ids) = Len(nodes)
               /\ UnfilteredLayout.kind = "layout"
               /\ GroupIdsOf(nodes) =
                    SelectSeq(GroupIdsOf(UnfilteredLayout.nodes),
                              LAMBDA g : g \in VisibleGroupIds)
               /\ Len(SelectSeq(nodes, LAMBDA n : n.isRoot)) = 1
               /\ Len(nodes) = Len(sn) + Cardinality(VisibleGroupIds) + 1
               /\ \A i \in DOMAIN layout.links :
                    /\ layout.links[i].sourceId \in ids
                    /\ layout.links[i].targetId \in ids
      /\ (currentView = "graph" /\ visibleGroupIds = Null
            /\ layout.kind = "layout") =>
           IdsOf(allNodes) = IdsOf(UnfilteredLayout.nodes)

\* the graph is shown under a filter that hides a group that has steps
C11_Witness ==
  /\ currentView = "graph" /\ allNodes # <<>>
  /\ visibleGroupIds # Null
  /\ \E i \in DOMAIN steps : steps[i].group_id \notin VisibleGroupIds
  /\ \E i \in DOMAIN steps : steps[i].group_id \in VisibleGroupIds
  /\ IdsOf(allNodes) = IdsOf(calculateTreeLayout(State).nodes)

\* ------------------------------------------------ layout and array order
\* The state right after a load of data, before any view is opened.
Loaded(data, filter) ==
  /\ assy = data.assy /\ groups = data.groups /\ steps = data.steps
  /\ parts = data.parts /\ fasts = data.fasts
  /\ stepLinks = autoGenerateLinks(Val(data.assy).id, data.groups,
                                   data.steps, <<>>)
  /\ selectedStepId = Null
  /\ showPartNodes = TRUE /\ showFastenerLabels = TRUE
  /\ layoutDirty = FALSE
  /\ gap1 = 300 /\ gap2 = 240
  /\ visibleGroupIds = filter
  /\ currentView = "list"
  /\ allNodes = <<>> /\ positions = Null
  /\ stepDom = {} /\ linkDom = <<>> /\ partHexDom = <<>> /\ partLinkDom = <<>>
  /\ bounds = Null /\ zoomTransform = Null
  /\ dbPos = [id \in {data.steps[i].id : i \in DOMAIN data.steps} |->
               LET s == CHOOSE r \in SeqToSet(data.steps) : r.id = id
               IN  [x |-> s.x, y |-> s.y, saved |-> FALSE]]
  /\ saves = <<>>
  /\ nSaves = 0
  /\ dragY = [id \in {data.steps[i].id : i \in DOMAIN data.steps} |-> Null]
  /\ labelCalls = <<>> /\ nearestCall = Null
  /\ ecnMode = FALSE /\ ecnBrush = "remove"
  /\ ecnChanges = EcnChangesOf(data.steps)
  /\ fieldCalls = <<>>

\* the arrays a query `.order('sort_order')` can return for the rows of q:
\* any order of the rows (rows with equal keys come in any order, and the
\* layout sorts again whatever it is given)
Reordered(q) ==
  {[i \in DOMAIN q |-> q[f[i]]] : f \in Permutations(DOMAIN q)}

\* the rows of q with sort keys from 1 .. 2, equal keys included
Rekeyed(q) ==
  {[i \in DOMAIN q |-> [q[i] EXCEPT !.sort_order = k[i]]] :
     k \in [DOMAIN q -> 1 .. 2]}

OrderDataSets ==
  UNION {{[d EXCEPT !.groups = g, !.steps = s] :
            g \in UNION {Reordered(r) : r \in Rekeyed(d.groups)},
            s \in UNION {Reordered(r) : r \in Rekeyed(d.steps)}} :
         d \in DataSets}

InitOrder == \E data \in OrderDataSets : Loaded(data, Null)

NextOrder ==
  \/ \E view \in {"list", "graph"} : SwitchView(view)
  \/ Resize

SpecOrder == InitOrder /\ [][NextOrder]_vars

\* the node table as a set: id, x, y, width and height of every node
TableOf(layout) ==
  IF layout.kind # "layout" THEN {}
  ELSE {<<layout.nodes[i].id, layout.nodes[i].x, layout.nodes[i].y,
          layout.nodes[i].w, layout.nodes[i].h>> : i \in DOMAIN layout.nodes}

SortKeyOfStep(id) == (CHOOSE r \in SeqToSet(steps) : r.id = id).sort_order
SortKeyOfGroup(id) == (CHOOSE r \in SeqToSet(groups) : r.id = id).sort_order

\* C12: the node table does not depend on the order of the groups and steps
\* arrays, and of two steps of one group, or two groups, with equal sort
\* keys the one with the smaller identifier is ranked first.
C12_LayoutIgnoresArrayOrder ==
  LET layout == calculateTreeLayout(State)
      nodes == IF layout.kind = "layout" THEN layout.nodes ELSE <<>>
  IN  /\ \A g \in Reordered(groups), s \in Reordered(steps) :
           TableOf(calculateTreeLayout([State EXCEPT !.groups = g, !.steps = s]))
             = TableOf(layout)
      /\ \A i, j \in DOMAIN nodes :
           (/\ nodes[i].isStep /\ nodes[j].isStep
            /\ nodes[i].groupId = nodes[j].groupId
            /\ SortKeyOfStep(nodes[i].dbId) = SortKeyOfStep(nodes[j].dbId)
            /\ nodes[i].dbId < nodes[j].dbId)
             => nodes[i].seq < nodes[j].seq
      /\ \A i, j \in DOMAIN nodes :
           (/\ nodes[i].isGroup /\ nodes[j].isGroup
            /\ SortKeyOfGroup(nodes[i].groupId) = SortKeyOfGroup(nodes[j].groupId)
            /\ nodes[i].groupId < nodes[j].groupId)
             => nodes[i].seq < nodes[j].seq

\* --------------------------------------------------- generated step links
\* Loads for the link generation: up to MaxGroups + 1 groups (so that an
\* empty group can lie between two groups with steps), up to MaxSteps + 1
\* steps put in any groups, sort keys ascending or descending in the id, and
\* the arrays in ascending id order.
LinkDataSet(ng, ns, groupOf, gDesc, sDesc) ==
  [assy |-> Some([id |-> 1, tag |-> "HBD_assy"]),
   groups |-> [g \in 1 .. ng |->
                 [id |-> g, sort_order |-> IF gDesc THEN ng + 1 - g ELSE g]],
   steps |-> [i \in 1 .. ns |->
                [StepRow(i, groupOf[i], 0) EXCEPT
                   !.sort_order = IF sDesc THEN ns + 1 - i ELSE i]],
   parts |-> <<>>, fasts |-> <<>>]

LinkDataSets ==
  UNION {{LinkDataSet(ng, ns, groupOf, gDesc, sDesc) :
            groupOf \in [1 .. ns -> 1 .. ng], gDesc \in BOOLEAN, sDesc \in BOOLEAN} :
         ng \in 1 .. MaxGroups + 1, ns \in 0 .. MaxSteps + 1}

NextLinks ==
  \/ \E data \in LinkDataSets : SetData(data)
  \/ \E view \in {"list", "graph"} : SwitchView(view)

SpecLinks == Init /\ [][NextLinks]_vars

StepRowOf(id) == CHOOSE r \in SeqToSet(steps) : r.id = id
GroupRowOf(id) == CHOOSE r \in SeqToSet(groups) : r.id = id
StepsIn(gid) == {r \in SeqToSet(steps) : r.group_id = gid}

\* a and b are consecutive steps of one group in sort order
ConsecutiveSteps(a, b) ==
  /\ a.group_id = b.group_id /\ a.sort_order < b.sort_order
  /\ ~\E c \in StepsIn(a.group_id) :
        a.sort_order < c.sort_order /\ c.sort_order < b.sort_order

\* a is the last step of a group and b the first step of the group that
\* follows it in sort order
BridgedSteps(a, b) ==
  LET g == GroupRowOf(a.group_id)
      h == GroupRowOf(b.group_id)
  IN  /\ g.sort_order < h.sort_order
      /\ ~\E k \in SeqToSet(groups) :
            g.sort_order < k.sort_order /\ k.sort_order < h.sort_order
      /\ \A c \in StepsIn(g.id) : c.sort_order <= a.sort_order
      /\ \A c \in StepsIn(h.id) : b.sort_order <= c.sort_order

LinkPairs ==
  {<<stepLinks[i].parent_step_id, stepLinks[i].child_step_id>> :
     i \in DOMAIN stepLinks}

\* C13: from an empty list of existing links, autoGenerateLinks returns
\* exactly the link a -> b for every two consecutive steps of a group and
\* for the last step a of a group and the first step b of the group that
\* follows it, when both have steps; no pair twice, no step linked to itself.
C13_GeneratedLinksExact ==
  assy # Null =>
    /\ stepLinks = autoGenerateLinks(Val(assy).id, groups, steps, <<>>)
    /\ LinkPairs = {<<a.id, b.id>> : <<a, b>> \in
                      {p \in SeqToSet(steps) \X SeqToSet(steps) :
                         ConsecutiveSteps(p[1], p[2]) \/ BridgedSteps(p[1], p[2])}}
    /\ Cardinality(LinkPairs) = Len(stepLinks)
    /\ \A i \in DOMAIN stepLinks :
         stepLinks[i].parent_step_id # stepLinks[i].child_step_id

\* links were generated for groups of which one with steps is followed, in
\* sort order, by a group without steps and then by a group with steps
C13_Witness ==
  /\ \E g, h, k \in SeqToSet(groups) :
       /\ g.sort_order + 1 = h.sort_order /\ h.sort_order + 1 = k.sort_order
       /\ StepsIn(g.id) # {} /\ StepsIn(h.id) = {} /\ StepsIn(k.id) # {}
  /\ \E a, b \in SeqToSet(steps) : ConsecutiveSteps(a, b) /\ a.id > b.id
  /\ Len(stepLinks) = 1

\* C14: when savePositions returns, it has attempted the update of every
\* entry of the position map, also of those after a failed one, and the
\* count it returns is the number of updates that returned no error.
C14_SaveCountsSuccesses ==
  [][\A k \in DOMAIN saves :
       (Len(saves') < Len(saves) /\ saves' = RemoveAt(saves, k))
         => /\ Len(saves[k].oks) = Len(saves[k].entries)
            /\ saves[k].count =
                 Cardinality({j \in DOMAIN saves[k].oks : saves[k].oks[j]})
            /\ 0 <= saves[k].count
            /\ saves[k].count <= Len(saves[k].entries)]_vars

\* a Save of two rows is complete: the first update failed, the second was
\* made and succeeded
C14_Witness ==
  \E k \in DOMAIN saves :
    /\ Len(saves[k].entries) = 2 /\ saves[k].i = 2
    /\ saves[k].oks = <<FALSE, TRUE>>
    /\ saves[k].count = 1
    /\ dbPos[saves[k].entries[2].id].saved
    /\ ~dbPos[saves[k].entries[1].id].saved

\* the 0-based rank of a step among the steps of its group, by sort key
RankOf(r) ==
  Cardinality({c \in StepsIn(r.group_id) : c.sort_order < r.sort_order})

\* every step of the group is unpinned and no two have the same sort key
PlainGroup(gid) ==
  \A a \in StepsIn(gid) :
    /\ a.y = Null
    /\ \A b \in StepsIn(gid) : a.id # b.id => a.sort_order # b.sort_order

\* C15: in a group whose steps have distinct sort keys and no pinned y, the
\* step of rank i is at y = bandStart + padding + i * spacing and all steps
\* are at one x; so steps of consecutive ranks are one spacing apart, and
\* the group node is at the midpoint of the first and the last step, which
\* for an odd number of steps is the y of the middle step.
C15_UnpinnedStepsEvenlySpaced ==
  LET layout == calculateTreeLayout(State)
  IN  layout.kind = "layout" =>
        \A b \in DOMAIN layout.swimlanes :
          LET lane == layout.swimlanes[b]
              sn == SelectSeq(layout.nodes,
                              LAMBDA n : n.isStep /\ n.groupId = lane.gid)
              gn == SelectSeq(layout.nodes,
                              LAMBDA n : n.isGroup /\ n.groupId = lane.gid)
              atRank(i) == CHOOSE m \in SeqToSet(sn) : RankOf(StepRowOf(m.dbId)) = i
              n == Len(sn)
          IN  (PlainGroup(lane.gid) /\ n > 0) =>
                /\ \A j \in DOMAIN sn :
                     /\ sn[j].y = lane.startY + Px(swimPadY)
                                  + RankOf(StepRowOf(sn[j].dbId)) * Px(VERTICAL_GAP)
                     /\ sn[j].x = sn[1].x
                /\ \A i \in 0 .. n - 2 :
                     atRank(i + 1).y - atRank(i).y = Px(VERTICAL_GAP)
                /\ Len(gn) = 1
                /\ 2 * gn[1].y = atRank(0).y + atRank(n - 1).y
                /\ n % 2 = 1 => gn[1].y = atRank((n - 1) \div 2).y

\* the graph shows a group of three unpinned steps whose sort order is the
\* reverse of their order in the array
C15_Witness ==
  /\ currentView = "graph" /\ allNodes # <<>>
  /\ \E g \in SeqToSet(groups) :
       /\ Cardinality(StepsIn(g.id)) = 3 /\ PlainGroup(g.id)
       /\ \E a, b \in StepsIn(g.id) : a.id < b.id /\ a.sort_order > b.sort_order
       /\ Len(StepNodesIn(g.id)) = 3
  /\ allNodes = calculateTreeLayout(State).nodes

\* --------------------------------------------------------------------- C16
\* [0.05, 0.95] in twentieths
LabelRange == 1 .. 19

\* C16: every label position that a label drag gesture sends to
\* updateLabelPosition, and every value it then stores in the step's
\* label_position, lies in [0.05, 0.95].
C16_LabelPositionsInRange ==
  [][/\ \A k \in DOMAIN labelCalls' : labelCalls'[k].finalT \in LabelRange
     /\ \A j \in DOMAIN steps \cap DOMAIN steps' :
          (steps'[j].label_position # steps[j].label_position)
            => Val(steps'[j].label_position) \in LabelRange]_vars

\* what does hold: a 'drag' event leaves the label at a position in
\* [0.05, 0.95], whatever the cursor and whatever position it had
C16_DragEventClamps ==
  [][\A i \in DOMAIN linkDom, c \in LabelCursors :
       LabelDragMove(i, c) => Val(linkDom'[i].label).labelpos \in LabelRange]_vars

\* --------------------------------------------------------------------- C17
\* the squared distance from the curve point at t (in 1/1000) to the query
DistAt(a, t) ==
  DistExact(4 * t, a.px, a.py, a.curve.sx, a.curve.sy, a.curve.tx, a.curve.ty)
CoarseBest(a) ==
  CoarsePass(a.px, a.py, a.curve.sx, a.curve.sy, a.curve.tx, a.curve.ty)

\* C17: nearestT returns a t in [0, 1], and the curve point at the returned t
\* is not farther from the query point than the closest of the coarse
\* samples i / 40.
C17_NearestNotWorseThanCoarse ==
  (nearestCall # Null /\ Val(nearestCall).t # Null) =>
    LET a == Val(nearestCall)
        t == Val(a.t)
    IN  /\ t \in 0 .. 1000
        /\ ~NatLess(CoarseBest(a).dist, DistAt(a, t))

\* the first half of C17 alone: the returned t is in [0, 1]
C17_NearestInUnitInterval ==
  (nearestCall # Null /\ Val(nearestCall).t # Null) =>
    Val(Val(nearestCall).t) \in 0 .. 1000

\* --------------------------------------------------------------------- C18
IsFinite(a) == a.k = "fin"
IsPositive(a) == a.k = "fin" /\ a.n > 0
DisplaysNoStep == StepNodes = <<>> /\ allNodes # <<>>

\* C18: the transform that fitToScreen applies has a finite, positive scale
\* and a finite translation, also when the layout displays no step node.
C18_FitTransformFinite ==
  zoomTransform # Null =>
    LET t == Val(zoomTransform)
    IN  IsPositive(t.k) /\ IsFinite(t.x) /\ IsFinite(t.y)

\* what does hold: the transform is finite with a positive scale whenever
\* the layout displays a step node
C18_FitTransformFiniteWithSteps ==
  (zoomTransform # Null /\ ~DisplaysNoStep) =>
    LET t == Val(zoomTransform)
    IN  IsPositive(t.k) /\ IsFinite(t.x) /\ IsFinite(t.y)

\* --------------------------------------------------------------------- C19
\* the curve of the displayed link lg runs between the anchors of its two
\* nodes as the node table holds them now
LinkAttached(lg) ==
  LET src == FindNode(allNodes, lg.src)
      tgt == FindNode(allNodes, lg.tgt)
  IN  /\ src # Null /\ tgt # Null
      /\ lg.path = [sx |-> Val(src).x + Val(src).w \div 2, sy |-> Val(src).y,
                    tx |-> Val(tgt).x - Val(tgt).w \div 2, ty |-> Val(tgt).y]

\* C19: after every render and every drag update, each displayed link's curve
\* starts at (source.x + source.w / 2, source.y) and ends at
\* (target.x - target.w / 2, target.y) for the current positions of its two
\* nodes; in particular no step-to-group or group-to-root curve is attached
\* to the position a group or the root had before the drag update.
C19_LinksAttachedToNodes ==
  \A i \in DOMAIN linkDom : LinkAttached(linkDom[i])

\* a step is shown where it was dragged to, away from a sibling, with its link
\* to the group and the link of the group to the root displayed
C19_Witness ==
  \E i \in DOMAIN StepNodes, j \in DOMAIN StepNodes :
    /\ StepNodes[i].groupId = StepNodes[j].groupId
    /\ StepNodes[i].y # StepNodes[j].y
    /\ dragY[StepNodes[i].dbId] = Some(StepNodes[i].y)
    /\ \E a \in DOMAIN linkDom, b \in DOMAIN linkDom :
         /\ linkDom[a].src = StepNodes[i].id
         /\ linkDom[b].src = linkDom[a].tgt
         /\ linkDom[b].tgt = RootNodeId

\* --------------------------------------------------------------------- C20
\* the label position that the model holds for step sid, as a render shows it
ShownLabelT(rows, sid) ==
  LET r == CHOOSE x \in SeqToSet(rows) : x.id = sid
  IN  IF r.label_position # Null THEN Val(r.label_position) ELSE 10

\* C20: when a label drag that moved the label ends (the edit is committed
\* and updateLabelPosition is called), the step's label_position in the
\* in-memory model is the new value at once, before the call has resolved.
C20_EditReflectedAtCommit ==
  [][\A i \in DOMAIN linkDom :
       (/\ LabelDragEnd(i)
        /\ Val(linkDom[i].label).labelpos
             # ShownLabelT(steps, Val(linkDom[i].label).stepid))
         => ShownLabelT(steps', Val(linkDom[i].label).stepid)
              = Val(linkDom[i].label).labelpos]_vars

\* what does hold: the model takes the value when the call resolves without
\* error, and keeps its value when the call fails
C20_EditReflectedAtSuccess ==
  [][\A k \in DOMAIN labelCalls, ok \in BOOLEAN :
       LabelCallDone(k, ok) =>
         ShownLabelT(steps', labelCalls[k].stepId)
           = (IF ok THEN labelCalls[k].finalT
              ELSE ShownLabelT(steps, labelCalls[k].stepId))]_vars

\* ---------------------------------------------------------- band heights
\* the bands of the layout of the current state (none when there is no layout)
Swimlanes ==
  LET layout == calculateTreeLayout(State)
  IN  IF layout.kind = "layout" THEN layout.swimlanes ELSE <<>>

\* n and p of a group, counted on the loaded rows
StepCountOf(gid) == Cardinality({i \in DOMAIN steps : steps[i].group_id = gid})
PartCountOf(sid) == Cardinality({i \in DOMAIN parts : parts[i].step_id = sid})
MaxPartCountOf(gid) ==
  LET counts == {PartCountOf(steps[i].id) :
                   i \in {j \in DOMAIN steps : steps[j].group_id = gid}}
  IN  IF counts = {} THEN 0 ELSE CHOOSE c \in counts : \A d \in counts : d <= c
\* the least integer that is at least 0.7 * p
DensityOf(p) == CHOOSE c \in 0 .. p : 10 * c >= 7 * p /\ 10 * (c - 1) < 7 * p

\* the bands start at topPad + headerH, follow each other at the fixed gap
\* in group sort order and do not overlap
BandsStacked ==
  LET lanes == Swimlanes
      sorted == SortBySortOrder(groups)
      visible == SelectSeq(sorted, LAMBDA g : g.id \in VisibleGroupIds)
  IN  /\ Len(lanes) > 0 => lanes[1].startY = Px(topPad + headerH)
      /\ calculateTreeLayout(State).kind = "layout" =>
           [i \in DOMAIN lanes |-> lanes[i].gid] =
             [i \in DOMAIN visible |-> visible[i].id]
      /\ \A i \in DOMAIN lanes : i > 1 =>
           /\ lanes[i].startY =
                lanes[i - 1].startY + lanes[i - 1].height + Px(swimGap)
           /\ lanes[i].startY > lanes[i - 1].startY + lanes[i - 1].height

\* C21 (as stated): every band is max(n, ceil(0.7 * p)) * spacing + 2 *
\* padding high, the first band starts at topPad + headerH, and each next
\* band starts at the previous start + height + the fixed gap.
C21_BandHeights ==
  /\ \A i \in DOMAIN Swimlanes :
       Swimlanes[i].height =
         Max2(StepCountOf(Swimlanes[i].gid),
              DensityOf(MaxPartCountOf(Swimlanes[i].gid))) * Px(VERTICAL_GAP)
           + 2 * Px(swimPadY)
  /\ BandsStacked

\* C21 (amended): the content of a band is never lower than 1.5 * spacing:
\* the height is max(max(n, ceil(0.7 * p)) * spacing, 1.5 * spacing) + 2 *
\* padding; the stacking of the bands is as stated.
C21_BandHeightsWithFloor ==
  /\ \A i \in DOMAIN Swimlanes :
       Swimlanes[i].height =
         Max2(Max2(StepCountOf(Swimlanes[i].gid),
                   DensityOf(MaxPartCountOf(Swimlanes[i].gid)))
                * Px(VERTICAL_GAP),
              (3 * Px(VERTICAL_GAP)) \div 2)
           + 2 * Px(swimPadY)
  /\ BandsStacked

\* the graph shows two bands: in one the part count of a step decides the
\* height, the other holds at most one step and at most one part per step
C21_Witness ==
  /\ currentView = "graph" /\ allNodes # <<>>
  /\ Len(Swimlanes) = 2
  /\ \E i \in DOMAIN Swimlanes :
       DensityOf(MaxPartCountOf(Swimlanes[i].gid)) > StepCountOf(Swimlanes[i].gid)
  /\ \E i \in DOMAIN Swimlanes :
       /\ StepCountOf(Swimlanes[i].gid) <= 1
       /\ MaxPartCountOf(Swimlanes[i].gid) <= 1

\* ------------------------------------------------------- fastener labels
\* The fastener rows of step 1 a load can return: sort_order 1, 2, 1 again
\* and null.
FastenerRows ==
  {Fastener(11, 1, 1), Fastener(12, 1, 2),
   [Fastener(13, 1, 1) EXCEPT !.pn = Some("M5x12"), !.qty = 1,
                              !.loctite = Null, !.torque = Some("---")],
   [Fastener(14, 1, 2) EXCEPT !.sort_order = Null, !.pn = Some("M4x10"),
                              !.qty = 2, !.loctite = Some("222"),
                              !.torque = Some("3Nm")]}

\* `.order('sort_order')` of the load query: ascending, rows whose
\* sort_order is null come last, rows with equal sort_order in any order
DbOrdered(q) ==
  \A i, j \in DOMAIN q : i < j =>
    \/ q[j].sort_order = Null
    \/ /\ q[i].sort_order # Null
       /\ Val(q[i].sort_order) <= Val(q[j].sort_order)

FastenerLoads ==
  UNION {{q \in [1 .. Cardinality(S) -> S] :
            /\ \A i, j \in DOMAIN q : i # j => q[i] # q[j]
            /\ DbOrdered(q)} : S \in SUBSET FastenerRows}

\* the loads of DataSets with the fasteners of step 1 replaced
FastenerDataSets ==
  {[d EXCEPT !.fasts = q \o SelectSeq(d.fasts, LAMBDA f : f.step_id # 1)] :
     d \in DataSets, q \in FastenerLoads}

NextFasteners ==
  \/ \E data \in FastenerDataSets : SetData(data)
  \/ \E view \in {"list", "graph"} : SwitchView(view)
  \/ Resize

SpecFasteners == Init /\ [][NextFasteners]_vars

\* (a.sort_order || 0): the sort key of a fastener
FastenerKey(f) == IF f.sort_order = Null THEN 0 ELSE Val(f.sort_order)
FastenersOfStep(sid) == {f \in SeqToSet(fasts) : f.step_id = sid}
Present(v) == v # Null /\ v # Some("---")

\* the annotation lines the claim gives a step whose first fastener is f and
\* that has k fasteners
LinesFrom(f, k) ==
  <<[kind |-> "pn", text |-> Val(f.pn), qty |-> IF f.qty > 1 THEN f.qty ELSE 0]>>
  \o (IF Present(f.loctite)
      THEN <<[kind |-> "loctite", text |-> Val(f.loctite), qty |-> 0]>> ELSE <<>>)
  \o (IF Present(f.torque)
      THEN <<[kind |-> "torque", text |-> Val(f.torque), qty |-> 0]>> ELSE <<>>)
  \o (IF k > 1 THEN <<[kind |-> "more", text |-> "more", qty |-> k - 1]>>
      ELSE <<>>)

\* the label drawn on the link of step sid (Null when none is drawn)
LabelOfStep(sid) ==
  LET lgs == SelectSeq(linkDom, LAMBDA lg : lg.src = StepNodeId(sid))
  IN  IF lgs = <<>> THEN Null ELSE lgs[1].label

ShownStepIds == {allNodes[i].dbId : i \in {j \in DOMAIN allNodes : allNodes[j].isStep}}

\* C22: in the rendered graph, the label of every step with k >= 1
\* fasteners shows the part number (with the quantity when > 1), the
\* thread-locker and the torque of a fastener with the smallest sort key
\* among the step's fasteners, a thread-locker or torque line only for a
\* value that is present and not '---', and '+(k-1) more' exactly when k > 1.
C22_LabelFromSmallestSortKey ==
  \A sid \in ShownStepIds :
    FastenersOfStep(sid) # {} =>
      /\ LabelOfStep(sid) # Null
      /\ \E f \in FastenersOfStep(sid) :
           /\ \A g \in FastenersOfStep(sid) : FastenerKey(f) <= FastenerKey(g)
           /\ Val(LabelOfStep(sid)).lines =
                LinesFrom(f, Cardinality(FastenersOfStep(sid)))

\* what does hold: the same for the steps none of whose fasteners has a null
\* sort_order
C22_LabelFromSmallestSortOrder ==
  \A sid \in ShownStepIds :
    (/\ FastenersOfStep(sid) # {}
     /\ \A f \in FastenersOfStep(sid) : f.sort_order # Null) =>
      /\ LabelOfStep(sid) # Null
      /\ \E f \in FastenersOfStep(sid) :
           /\ \A g \in FastenersOfStep(sid) : FastenerKey(f) <= FastenerKey(g)
           /\ Val(LabelOfStep(sid)).lines =
                LinesFrom(f, Cardinality(FastenersOfStep(sid)))

\* ------------------------------------------------- part nodes under drags
\* the parts of step sid in sort-key order, counted on the loaded rows
PartRowsOf(sid) == {p \in SeqToSet(parts) : p.step_id = sid}
PartRank(p) ==
  Cardinality({q \in PartRowsOf(p.step_id) : q.sort_order < p.sort_order})
HexesOf(sid) == SelectSeq(partHexDom, LAMBDA h : h.stepid = sid)
PartLinksOf(sid) == SelectSeq(partLinkDom, LAMBDA l : l.stepid = sid)

\* the i-th part of step node s (i from 0) is drawn at its place, with its
\* connecting line
PartDrawnAt(s, i) ==
  LET hex == HexesOf(s.dbId)[i + 1]
      line == PartLinksOf(s.dbId)[i + 1].d
      n == Cardinality(PartRowsOf(s.dbId))
  IN  /\ \E p \in PartRowsOf(s.dbId) : p.id = hex.partid /\ PartRank(p) = i
      /\ hex.offsety = i * Px(partSpacing) - ((n - 1) * Px(partSpacing)) \div 2
      /\ hex.x = s.x - s.w \div 2 - Px(PART_NODE_WIDTH) \div 2 - Px(30)
      /\ hex.y = s.y + hex.offsety
      /\ line.mx = hex.x + Px(PART_NODE_WIDTH) \div 2 /\ line.my = hex.y
      /\ line.ex = s.x - s.w \div 2 /\ line.ey = s.y

\* C23: with part rendering enabled, in the shown graph the i-th part of
\* every step s (by sort key) is at x = s.x - s.w/2 - PART_NODE_WIDTH/2 - 30
\* and y = s.y + the offset given to it by the layout, and its connecting
\* line runs from the part's right edge at that y to (s.x - s.w/2, s.y),
\* after any sequence of drags.
C23_PartsFollowStep ==
  (currentView = "graph" /\ showPartNodes) =>
    \A k \in DOMAIN StepNodes :
      LET s == StepNodes[k]
          n == Cardinality(PartRowsOf(s.dbId))
      IN  /\ Len(HexesOf(s.dbId)) = n /\ Len(PartLinksOf(s.dbId)) = n
          /\ \A i \in 0 .. n - 1 : PartDrawnAt(s, i)

\* a step with two parts has been dragged away from the y of the layout
\* while another step with a part stayed
C23_Witness ==
  /\ currentView = "graph" /\ showPartNodes
  /\ \E k \in DOMAIN StepNodes :
       /\ Len(HexesOf(StepNodes[k].dbId)) = 2
       /\ dragY[StepNodes[k].dbId] = Some(StepNodes[k].y)
       /\ positions # Null
       /\ \E j \in DOMAIN StepNodes :
            /\ j # k /\ Len(HexesOf(StepNodes[j].dbId)) >= 1
            /\ dragY[StepNodes[j].dbId] = Null

\* ------------------------------------------------------- frame of a drag
\* the nodes a drag of step sid may move: the step, its group node, the root
MayMove(n, sid) ==
  \/ n.id = StepNodeId(sid)
  \/ n.isRoot
  \/ n.isGroup /\ \E i \in DOMAIN steps : steps[i].id = sid /\ steps[i].group_id = n.groupId

\* what the claim lists as left alone by a drag of step sid
DragLeavesRest(sid) ==
  /\ DOMAIN allNodes' = DOMAIN allNodes
  /\ \A i \in DOMAIN allNodes :
       /\ ~MayMove(allNodes[i], sid) => allNodes'[i] = allNodes[i]
       /\ [allNodes'[i] EXCEPT !.y = 0] = [allNodes[i] EXCEPT !.y = 0]
  /\ DOMAIN partHexDom' = DOMAIN partHexDom
  /\ \A i \in DOMAIN partHexDom :
       partHexDom[i].stepid # sid => partHexDom'[i] = partHexDom[i]
  /\ DOMAIN partLinkDom' = DOMAIN partLinkDom
  /\ \A i \in DOMAIN partLinkDom :
       partLinkDom[i].stepid # sid => partLinkDom'[i] = partLinkDom[i]
  /\ steps' = steps /\ parts' = parts /\ fasts' = fasts
  /\ groups' = groups /\ assy' = assy /\ stepLinks' = stepLinks

\* the link elements none of whose two nodes has moved
UnmovedLinks ==
  {i \in DOMAIN linkDom :
     /\ FindNode(allNodes', linkDom[i].src) = FindNode(allNodes, linkDom[i].src)
     /\ FindNode(allNodes', linkDom[i].tgt) = FindNode(allNodes, linkDom[i].tgt)}

\* C24: a drag of step s changes only s's y, the y of s's group node, the
\* root's y and the geometry derived from them: every other node, the x,
\* width and height of every node, the parts of every other step and the
\* entity data are unchanged, and so is every link curve and label anchor
\* between two nodes that have not moved.
C24_DragFrame ==
  [][\A sid \in StepIds, y \in DragYs :
       Drag(sid, y) =>
         /\ DragLeavesRest(sid)
         /\ DOMAIN linkDom' = DOMAIN linkDom
         /\ \A i \in UnmovedLinks : linkDom'[i] = linkDom[i]]_vars

\* what does hold: the same, with only the curve of a link between two
\* unmoved nodes, not its label anchor, required to stay
C24_DragFrameOfNodesAndCurves ==
  [][\A sid \in StepIds, y \in DragYs :
       Drag(sid, y) =>
         /\ DragLeavesRest(sid)
         /\ DOMAIN linkDom' = DOMAIN linkDom
         /\ \A i \in UnmovedLinks : linkDom'[i].path = linkDom[i].path]_vars

\* ------------------------------------------------------------ ECN marking
directTypes == {"remove", "replace", "add", "modify"}

\* toggleEcnStep(id) with the current brush
toggleEcnStep(changes, brush, id) ==
  IF id \in DOMAIN changes /\ changes[id] = brush
  THEN [k \in DOMAIN changes \ {id} |-> changes[k]]
  ELSE [k \in DOMAIN changes \cup {id} |-> IF k = id THEN brush ELSE changes[k]]

\* the index of the first step of gSteps with a direct mark, 0 when none
\* (earliestIdx + 1)
EarliestMarked(gSteps, changes) ==
  LET hits == {i \in DOMAIN gSteps :
                 /\ gSteps[i].id \in DOMAIN changes
                 /\ changes[gSteps[i].id] \in directTypes}
  IN  IF hits = {} THEN 0 ELSE CHOOSE i \in hits : \A j \in hits : i <= j

\* the body of groups.forEach for one group: the steps after the earliest
\* directly marked one that have no entry in ecnChanges
AffectedInGroup(gSteps, changes) ==
  LET e == EarliestMarked(gSteps, changes)
  IN  IF e = 0 THEN {}
      ELSE {gSteps[j].id : j \in {k \in DOMAIN gSteps :
                                    k > e /\ gSteps[k].id \notin DOMAIN changes}}

\* getEcnAffectedSteps()
getEcnAffectedSteps(grps, rows, changes) ==
  UNION {AffectedInGroup(
           SortBySortOrder(SelectSeq(rows, LAMBDA s : s.group_id = grps[g].id)),
           changes) : g \in DOMAIN grps}

\* the ECN toggle button: setEcnMode(!ecnMode), then the view is rendered
EcnToggle ==
  /\ assy # Null
  /\ ecnMode' = ~ecnMode
  /\ RenderIfGraph(State, currentView)
  /\ UNCHANGED <<ecnBrush, ecnChanges>>
  /\ UNCHANGED <<selectedStepId, showPartNodes, showFastenerLabels, layoutDirty,
                 gap1, gap2, visibleGroupIds, currentView, dragY>>
  /\ UNCHANGED_data /\ UNCHANGED_db /\ UNCHANGED_label /\ UNCHANGED_edits

\* the brush buttons shown in ECN mode
EcnBrushes == {"remove", "modify"}
SetEcnBrush(brush) ==
  /\ ecnMode /\ brush # ecnBrush
  /\ ecnBrush' = brush
  /\ UNCHANGED <<ecnMode, ecnChanges>>
  /\ UNCHANGED <<selectedStepId, showPartNodes, showFastenerLabels, layoutDirty,
                 gap1, gap2, visibleGroupIds, currentView, dragY>>
  /\ UNCHANGED_data /\ UNCHANGED_graph /\ UNCHANGED_db
  /\ UNCHANGED_label /\ UNCHANGED_edits

\* click on a step node in ECN mode: toggleEcnStep(d.dbId); renderGraph()
ClickStepEcn(sid) ==
  /\ currentView = "graph" /\ sid \in stepDom /\ ecnMode
  /\ ecnChanges' = toggleEcnStep(ecnChanges, ecnBrush, sid)
  /\ SetGraph(renderGraph(State, Graph))
  /\ UNCHANGED <<ecnMode, ecnBrush>>
  /\ UNCHANGED <<selectedStepId, showPartNodes, showFastenerLabels, layoutDirty,
                 gap1, gap2, visibleGroupIds, currentView, dragY>>
  /\ UNCHANGED_data /\ UNCHANGED_db /\ UNCHANGED_label /\ UNCHANGED_edits

\* Loads for the ECN marking: up to MaxGroups groups, up to MaxSteps + 1
\* steps put in any groups, sort keys ascending or descending in the id, and
\* the ecn_status column holding nothing or 'affected' (state.js names the
\* five values ecnChanges can hold; the direct marks come from the clicks).
EcnStatuses == {Null, Some("affected")}
EcnDataSets ==
  UNION {{[LinkDataSet(ng, ns, groupOf, FALSE, sDesc) EXCEPT
             !.steps = [i \in 1 .. ns |-> [@[i] EXCEPT !.ecn_status = st[i]]]] :
            groupOf \in [1 .. ns -> 1 .. ng], sDesc \in BOOLEAN,
            st \in [1 .. ns -> EcnStatuses]} :
         ng \in 1 .. MaxGroups, ns \in 1 .. MaxSteps + 1}

NextEcn ==
  \/ \E data \in EcnDataSets : SetData(data)
  \/ \E view \in {"list", "graph"} : SwitchView(view)
  \/ EcnToggle
  \/ \E brush \in EcnBrushes : SetEcnBrush(brush)
  \/ \E sid \in StepIds : ClickStepEcn(sid)

SpecEcn == Init /\ [][NextEcn]_vars

DirectlyMarked(sid) == sid \in DOMAIN ecnChanges /\ ecnChanges[sid] \in directTypes
Cascade == getEcnAffectedSteps(groups, steps, ecnChanges)

\* the steps before which a directly marked step of their group comes in
\* sort order
AfterDirectMark ==
  {s.id : s \in {r \in SeqToSet(steps) :
                   \E d \in SeqToSet(steps) :
                     /\ d.group_id = r.group_id /\ DirectlyMarked(d.id)
                     /\ d.sort_order < r.sort_order
                     /\ \E g \in DOMAIN groups : groups[g].id = r.group_id}}

\* C25: getEcnAffectedSteps returns exactly the steps that come after a
\* directly marked step (remove, replace, add, modify) of their group in
\* sort order and are not directly marked themselves.
C25_CascadeExact ==
  Cascade = {sid \in AfterDirectMark : ~DirectlyMarked(sid)}

\* what does hold: the result is exactly the steps after a direct mark that
\* carry no mark at all; so it holds no directly marked step, no step at or
\* before the earliest direct mark of its group, and no step of a group
\* without a direct mark.
C25_CascadeOfUnmarked ==
  Cascade = {sid \in AfterDirectMark : sid \notin DOMAIN ecnChanges}

\* ------------------------------------------------ the 'ECN only' filter
\* ecnGroupIds: the group of every step that has an entry in ecnChanges
ecnGroupIds(rows, changes) ==
  {rows[i].group_id : i \in {j \in DOMAIN rows : rows[j].id \in DOMAIN changes}}

\* the 'ECN only' filter button; a toast and nothing else when no step is
\* marked
FilterEcnOnly ==
  /\ currentView = "graph" /\ assy # Null
  /\ LET ids == ecnGroupIds(steps, ecnChanges)
     IN  IF Cardinality(ids) = 0
         THEN UNCHANGED visibleGroupIds /\ UNCHANGED_graph
         ELSE /\ visibleGroupIds' = Some(ids)
              /\ RenderAndFitIfGraph([State EXCEPT !.visibleGroupIds = Some(ids)],
                                     currentView)
  /\ UNCHANGED <<selectedStepId, showPartNodes, showFastenerLabels, layoutDirty,
                 gap1, gap2, currentView, dragY>>
  /\ UNCHANGED_data /\ UNCHANGED_db /\ UNCHANGED_label
  /\ UNCHANGED_ecn /\ UNCHANGED_edits

\* the loads of DataSets with any of the steps carrying the mark 'replace'
MarkedDataSets ==
  UNION {{[d EXCEPT !.steps = [i \in DOMAIN d.steps |->
                                 [d.steps[i] EXCEPT !.ecn_status = st[i]]]] :
            st \in [DOMAIN d.steps -> {Null, Some("replace")}]} : d \in DataSets}

NextFilter ==
  \/ \E data \in MarkedDataSets : SetData(data)
  \/ \E view \in {"list", "graph"} : SwitchView(view)
  \/ \E gid \in GroupIds : ToggleGroupFilter(gid)
  \/ FilterAll
  \/ FilterEcnOnly

SpecFilter == Init /\ [][NextFilter]_vars

\* C26: after any sequence of chip toggles, 'All' and 'ECN only' actions,
\* visibleGroupIds is null or a non-empty proper subset of the group ids:
\* never the empty set, and never a set that contains every group.
C26_FilterNormalised ==
  visibleGroupIds # Null =>
    /\ Val(visibleGroupIds) # {}
    /\ Val(visibleGroupIds) \subseteq GroupIds
    /\ Val(visibleGroupIds) # GroupIds

\* what does hold: the filter is null or a non-empty set of group ids
C26_FilterNeverEmpty ==
  visibleGroupIds # Null =>
    /\ Val(visibleGroupIds) # {}
    /\ Val(visibleGroupIds) \subseteq GroupIds

\* what does hold of the chips: with more than one group, a chip toggle
\* never leaves a set that contains every group
C26_ToggleNormalises ==
  [][\A gid \in GroupIds :
       (ToggleGroupFilter(gid) /\ Len(groups) > 1 /\ visibleGroupIds # Some(GroupIds))
         => visibleGroupIds' # Some(GroupIds)]_vars

\* ------------------------------------------------- field edits on the graph
\* A call in flight: kind is "part" (updatePart from editPartFromGraph),
\* "fast" (updateFastener from editFastenerFromGraph), "seq" (updateSeqTag
\* from promptSeqTag) or "clear" (updateSeqTag from clearSeqTag); the other
\* fields are what the continuation of the handler holds.
FieldCall(kind, id, pn, qty, loctite, torque, tag) ==
  [kind |-> kind, id |-> id, pn |-> pn, qty |-> qty,
   loctite |-> loctite, torque |-> torque, tag |-> tag]

UNCHANGED_view ==
  UNCHANGED <<selectedStepId, showPartNodes, showFastenerLabels, layoutDirty,
              gap1, gap2, visibleGroupIds, currentView, dragY>>

\* editPartFromGraph(partId), up to the call: the prompts give P-200 and 5
EditPart(pid) ==
  /\ currentView = "graph"
  /\ \E i \in DOMAIN partHexDom : partHexDom[i].partid = pid
  /\ \E i \in DOMAIN parts : parts[i].id = pid
  /\ Len(fieldCalls) < MaxFieldCalls
  /\ fieldCalls' = Append(fieldCalls,
                          FieldCall("part", pid, "P-200", 5, Null, Null, Null))
  /\ UNCHANGED_view /\ UNCHANGED_data /\ UNCHANGED_graph /\ UNCHANGED_db
  /\ UNCHANGED_label /\ UNCHANGED_ecn

\* editFastenerFromGraph(stepId), up to the call: the first fastener of the
\* step in array order is edited; the prompts give M10x40, 2, an empty
\* thread-locker and 40Nm
EditFastener(sid) ==
  /\ currentView = "graph"
  /\ \E i \in DOMAIN linkDom :
       linkDom[i].label # Null /\ Val(linkDom[i].label).stepid = sid
  /\ FastsOf(State, sid) # <<>>
  /\ Len(fieldCalls) < MaxFieldCalls
  /\ fieldCalls' = Append(fieldCalls,
                          FieldCall("fast", FastsOf(State, sid)[1].id,
                                    "M10x40", 2, Null, Some("40Nm"), Null))
  /\ UNCHANGED_view /\ UNCHANGED_data /\ UNCHANGED_graph /\ UNCHANGED_db
  /\ UNCHANGED_label /\ UNCHANGED_ecn

\* the tags typed into the prompt of promptSeqTag, trimmed
SeqTags == {"1a", ""}

\* promptSeqTag(stepId, current), up to the call
PromptSeqTag(sid, tag) ==
  /\ currentView = "graph" /\ sid \in stepDom
  /\ Len(fieldCalls) < MaxFieldCalls
  /\ fieldCalls' = Append(fieldCalls,
                          FieldCall("seq", sid, "", 0, Null, Null,
                                    IF tag = "" THEN Null ELSE Some(tag)))
  /\ UNCHANGED_view /\ UNCHANGED_data /\ UNCHANGED_graph /\ UNCHANGED_db
  /\ UNCHANGED_label /\ UNCHANGED_ecn

\* clearSeqTag(stepId), up to the call
ClearSeqTag(sid) ==
  /\ currentView = "graph" /\ sid \in stepDom
  /\ Len(fieldCalls) < MaxFieldCalls
  /\ fieldCalls' = Append(fieldCalls,
                          FieldCall("clear", sid, "", 0, Null, Null, Null))
  /\ UNCHANGED_view /\ UNCHANGED_data /\ UNCHANGED_graph /\ UNCHANGED_db
  /\ UNCHANGED_label /\ UNCHANGED_ecn

\* whether the continuation of the handler of call c writes the in-memory
\* entity: `if (ok)` in editPartFromGraph, editFastenerFromGraph and
\* promptSeqTag; clearSeqTag does not look at the result of its await
CallStores(c, ok) == IF c.kind = "clear" THEN TRUE ELSE ok

StorePart(rows, c) ==
  [j \in DOMAIN rows |->
     IF rows[j].id = c.id THEN [rows[j] EXCEPT !.pn = c.pn, !.qty = c.qty]
     ELSE rows[j]]

StoreFastener(rows, c) ==
  [j \in DOMAIN rows |->
     IF rows[j].id = c.id
     THEN [rows[j] EXCEPT !.pn = Some(c.pn), !.qty = c.qty,
                          !.loctite = c.loctite, !.torque = c.torque]
     ELSE rows[j]]

StoreSeqTag(rows, c) ==
  [j \in DOMAIN rows |->
     IF rows[j].id = c.id THEN [rows[j] EXCEPT !.seq_tag = c.tag] ELSE rows[j]]

\* the call fieldCalls[k] resolves with ok = !error and the handler goes on:
\* the entity is written and the graph rendered again
FieldCallDone(k, ok) ==
  /\ k \in DOMAIN fieldCalls
  /\ LET c == fieldCalls[k]
         stores == CallStores(c, ok)
         newParts == IF stores /\ c.kind = "part" THEN StorePart(parts, c)
                     ELSE parts
         newFasts == IF stores /\ c.kind = "fast" THEN StoreFastener(fasts, c)
                     ELSE fasts
         newSteps == IF stores /\ c.kind \in {"seq", "clear"}
                     THEN StoreSeqTag(steps, c) ELSE steps
     IN  /\ parts' = newParts /\ fasts' = newFasts /\ steps' = newSteps
         /\ IF stores
            THEN SetGraph(renderGraph([State EXCEPT !.parts = newParts,
                                                    !.fasts = newFasts,
                                                    !.steps = newSteps], Graph))
            ELSE UNCHANGED_graph
  /\ fieldCalls' = RemoveAt(fieldCalls, k)
  /\ UNCHANGED <<assy, groups, stepLinks>>
  /\ UNCHANGED_view /\ UNCHANGED_db /\ UNCHANGED_label /\ UNCHANGED_ecn

NextEdit ==
  \/ \E data \in DataSets : SetData(data)
  \/ \E view \in {"list", "graph"} : SwitchView(view)
  \/ \E i \in DOMAIN parts : EditPart(parts[i].id)
  \/ \E sid \in StepIds : EditFastener(sid)
  \/ \E sid \in StepIds, tag \in SeqTags : PromptSeqTag(sid, tag)
  \/ \E sid \in StepIds : ClearSeqTag(sid)
  \/ \E k \in DOMAIN fieldCalls, ok \in BOOLEAN : FieldCallDone(k, ok)
  \/ \E i \in DOMAIN linkDom : LabelDragEnd(i)
  \/ \E k \in DOMAIN labelCalls, ok \in BOOLEAN : LabelCallDone(k, ok)

SpecEdit == Init /\ [][NextEdit]_vars

\* C27: for part edit, fastener edit, sequence-tag set, sequence-tag clear
\* and label drag, a persistence call that reports failure leaves the
\* in-memory steps, parts and fasteners as they were.
C27_FailureKeepsValue ==
  [][/\ \A k \in DOMAIN fieldCalls :
          FieldCallDone(k, FALSE) =>
            (steps' = steps /\ parts' = parts /\ fasts' = fasts)
     /\ \A k \in DOMAIN labelCalls :
          LabelCallDone(k, FALSE) => steps' = steps]_vars

\* what does hold: the same for every action but the sequence-tag clear
C27_FailureKeepsValueButClear ==
  [][/\ \A k \in DOMAIN fieldCalls :
          (FieldCallDone(k, FALSE) /\ fieldCalls[k].kind # "clear") =>
            (steps' = steps /\ parts' = parts /\ fasts' = fasts)
     /\ \A k \in DOMAIN labelCalls :
          LabelCallDone(k, FALSE) => steps' = steps]_vars

\* ------------------------------------------------------ two label drags
LabelPositionOf(rows, sid) ==
  (CHOOSE r \in SeqToSet(rows) : r.id = sid).label_position

\* call k is the only call of its step still in flight
LastInFlight(k) ==
  \A j \in DOMAIN labelCalls :
    j # k => labelCalls[j].stepId # labelCalls[k].stepId

\* C28: when the calls of two label drags of one step have both resolved
\* without error, the step's in-memory label_position is the t of the drag
\* that ended later, also when the call of the later drag resolved first.
C28_LaterDragWins ==
  [][\A k \in DOMAIN labelCalls :
       (/\ LabelCallDone(k, TRUE)
        /\ labelCalls[k].newer # Null
        /\ LastInFlight(k))
         => LabelPositionOf(steps', labelCalls[k].stepId) = labelCalls[k].newer]_vars

\* what does hold: when the calls resolve in the order the drags ended (no
\* later drag's call has resolved before), the step holds the t of the call
\* that resolved last
C28_InOrderLaterDragWins ==
  [][\A k \in DOMAIN labelCalls :
       (/\ LabelCallDone(k, TRUE)
        /\ labelCalls[k].newer = Null)
         => LabelPositionOf(steps', labelCalls[k].stepId)
              = Some(labelCalls[k].finalT)]_vars


\* ----------------------------------------------------------------- C29
\* the place of a step in (group sort order, step sort order)
StepBefore(a, b) ==
  \/ GroupRowOf(a.group_id).sort_order < GroupRowOf(b.group_id).sort_order
  \/ a.group_id = b.group_id /\ a.sort_order < b.sort_order

\* b is the step that follows a in (group sort order, step sort order)
NextStep(a, b) ==
  /\ StepBefore(a, b)
  /\ ~\E c \in SeqToSet(steps) : StepBefore(a, c) /\ StepBefore(c, b)

IncomingFrom(s) ==
  {stepLinks[i].parent_step_id : i \in {j \in DOMAIN stepLinks :
                                          stepLinks[j].child_step_id = s.id}}
OutgoingTo(s) ==
  {stepLinks[i].child_step_id : i \in {j \in DOMAIN stepLinks :
                                         stepLinks[j].parent_step_id = s.id}}
IncomingCount(s) ==
  Cardinality({j \in DOMAIN stepLinks : stepLinks[j].child_step_id = s.id})
OutgoingCount(s) ==
  Cardinality({j \in DOMAIN stepLinks : stepLinks[j].parent_step_id = s.id})

\* the groups of a and b are the same or follow each other in sort order
\* with no group between them
AdjacentGroups(a, b) ==
  LET g == GroupRowOf(a.group_id)
      h == GroupRowOf(b.group_id)
  IN  \/ g.id = h.id
      \/ /\ g.sort_order < h.sort_order
         /\ ~\E k \in SeqToSet(groups) :
               g.sort_order < k.sort_order /\ k.sort_order < h.sort_order

\* C29: with no links and at least one step, the links of autoGenerateLinks
\* join all steps into one chain in (group sort order, step sort order):
\* every step but the very first has exactly one incoming link, which comes
\* from the step before it, every step but the very last has exactly one
\* outgoing link, also when a group between two groups with steps has none.
C29_OneChain ==
  (assy # Null /\ steps # <<>>) =>
    /\ stepLinks = autoGenerateLinks(Val(assy).id, groups, steps, <<>>)
    /\ \A a, b \in SeqToSet(steps) :
         NextStep(a, b) =>
           /\ IncomingCount(b) = 1 /\ IncomingFrom(b) = {a.id}
           /\ OutgoingCount(a) = 1 /\ OutgoingTo(a) = {b.id}
    /\ \A s \in SeqToSet(steps) :
         /\ (~\E a \in SeqToSet(steps) : StepBefore(a, s)) => IncomingCount(s) = 0
         /\ (~\E b \in SeqToSet(steps) : StepBefore(s, b)) => OutgoingCount(s) = 0

\* C29 as it holds: the chain is cut wherever a group without steps lies
\* between two groups with steps. A step and the step that follows it are
\* joined by exactly one link when their groups are the same or follow each
\* other directly, and by none otherwise; no other link exists.
C29_ChainCutAtEmptyGroups ==
  (assy # Null /\ steps # <<>>) =>
    /\ stepLinks = autoGenerateLinks(Val(assy).id, groups, steps, <<>>)
    /\ \A a, b \in SeqToSet(steps) :
         NextStep(a, b) =>
           IF AdjacentGroups(a, b)
           THEN /\ IncomingCount(b) = 1 /\ IncomingFrom(b) = {a.id}
                /\ OutgoingCount(a) = 1 /\ OutgoingTo(a) = {b.id}
           ELSE IncomingCount(b) = 0 /\ OutgoingCount(a) = 0
    /\ \A s \in SeqToSet(steps) :
         /\ (~\E a \in SeqToSet(steps) : StepBefore(a, s)) => IncomingCount(s) = 0
         /\ (~\E b \in SeqToSet(steps) : StepBefore(s, b)) => OutgoingCount(s) = 0

\* links were generated for three steps: two of one group, in an array
\* order that is the reverse of their sort order, and one of a group that
\* is separated from it by a group without steps
C29_Witness ==
  /\ assy # Null /\ Len(steps) = 3
  /\ \E a, b, c \in SeqToSet(steps) :
       /\ NextStep(a, b) /\ AdjacentGroups(a, b) /\ a.id > b.id
       /\ NextStep(b, c) /\ ~AdjacentGroups(b, c)
       /\ IncomingFrom(b) = {a.id} /\ IncomingCount(c) = 0


\* ------------------------------------------------------ spacing controls
\* The value of a control is a text, here a tuple of characters.
DigitChars == <<"0", "1", "2", "3", "4", "5", "6", "7", "8", "9">>
IsDigit(c) == \E i \in DOMAIN DigitChars : DigitChars[i] = c
DigitOf(c) == (CHOOSE i \in DOMAIN DigitChars : DigitChars[i] = c) - 1

\* the value of the leading digits of s
RECURSIVE DigitsValue(_, _)
DigitsValue(s, acc) ==
  IF s = <<>> \/ ~IsDigit(Head(s)) THEN acc
  ELSE DigitsValue(Tail(s), 10 * acc + DigitOf(Head(s)))

RECURSIVE SkipSpaces(_)
SkipSpaces(s) ==
  IF s # <<>> /\ Head(s) = " " THEN SkipSpaces(Tail(s)) ELSE s

\* parseInt(text): leading white space, an optional sign, then digits up to
\* the first other character; NaN (Null) when there is no digit
parseInt(text) ==
  LET t == SkipSpaces(text)
      signed == t # <<>> /\ Head(t) \in {"-", "+"}
      u == IF signed THEN Tail(t) ELSE t
  IN  IF u = <<>> \/ ~IsDigit(Head(u)) THEN Null
      ELSE IF signed /\ Head(t) = "-" THEN Some(0 - DigitsValue(u, 0))
      ELSE Some(DigitsValue(u, 0))

\* String(n) of an integer n >= 0, as parseInt(n) makes it of a number
RECURSIVE NumberText(_)
NumberText(n) ==
  IF n < 10 THEN <<DigitChars[n + 1]>>
  ELSE Append(NumberText(n \div 10), DigitChars[(n % 10) + 1])

\* `p || d`: NaN and 0 are falsy
OrDefault(p, d) == IF p = Null \/ Val(p) = 0 THEN d ELSE Val(p)

\* val = Math.max(120, Math.min(500, parseInt(val) || 300))
Gap1Of(text) == Max2(120, Min2(500, OrDefault(parseInt(text), 300)))
\* val = Math.max(100, Math.min(400, parseInt(val) || 240))
Gap2Of(text) == Max2(100, Min2(400, OrDefault(parseInt(text), 240)))

\* Math.round((state.gap1 + state.gap2) / 2) of two positive integers
GapAverage(a, b) == (a + b + 1) \div 2

\* syncGap1(val): state.setGap1(val) on module state st
syncGap1(st, text) == [st EXCEPT !.gap1 = Gap1Of(text)]

\* syncGap2(val): state.setGap2(val) on module state st
syncGap2(st, text) == [st EXCEPT !.gap2 = Gap2Of(text)]

\* `if (currentView === 'graph') renderGraph()` of a sync, from graph g
RenderedIfGraph(st, g, view) ==
  IF view = "graph" THEN renderGraph(st, g) ELSE g

UNCHANGED_spacing ==
  /\ UNCHANGED <<selectedStepId, showPartNodes, showFastenerLabels, layoutDirty,
                 visibleGroupIds, currentView, dragY>>
  /\ UNCHANGED_data /\ UNCHANGED_db /\ UNCHANGED_label
  /\ UNCHANGED_ecn /\ UNCHANGED_edits

\* 'input' of gap1Slider, 'change' of gap1Input
Gap1Input(text) ==
  /\ gap1' = Gap1Of(text) /\ gap2' = gap2
  /\ SetGraph(RenderedIfGraph(syncGap1(State, text), Graph, currentView))
  /\ UNCHANGED_spacing

\* 'input' of gap2Slider, 'change' of gap2Input
Gap2Input(text) ==
  /\ gap2' = Gap2Of(text) /\ gap1' = gap1
  /\ SetGraph(RenderedIfGraph(syncGap2(State, text), Graph, currentView))
  /\ UNCHANGED_spacing

\* the graph after syncGap1(a); syncGap2(b): the second render starts from
\* what the first one left
SyncedGraph(a, b) ==
  RenderedIfGraph(syncGap2(syncGap1(State, a), b),
                  RenderedIfGraph(syncGap1(State, a), Graph, currentView),
                  currentView)

\* spacingReset click: syncGap1(300); syncGap2(240)
SpacingReset ==
  /\ gap1' = Gap1Of(NumberText(300)) /\ gap2' = Gap2Of(NumberText(240))
  /\ SetGraph(SyncedGraph(NumberText(300), NumberText(240)))
  /\ UNCHANGED_spacing

\* spacingEqual click: avg = Math.round((gap1 + gap2) / 2); syncGap1(avg);
\* syncGap2(avg)
SpacingEqual ==
  /\ gap1' = Gap1Of(NumberText(GapAverage(gap1, gap2)))
  /\ gap2' = Gap2Of(NumberText(GapAverage(gap1, gap2)))
  /\ SetGraph(SyncedGraph(NumberText(GapAverage(gap1, gap2)),
                          NumberText(GapAverage(gap1, gap2))))
  /\ UNCHANGED_spacing

\* what the controls are given: nothing, a number below both ranges, a
\* negative number with a fraction, a signed number above both ranges that
\* is followed by a unit
GapTexts ==
  {<<>>, <<"9", "0">>, <<"-", "5", ".", "5">>,
   <<" ", "+", "6", "5", "0", "p", "x">>}

SpacingDataSets == {DataSet(MaxGroups, MaxSteps, 1)}

\* The gaps are set before and after the graph is shown; the list is not
\* shown again, so that the graph on screen is the one of the current gaps.
NextSpacing ==
  \/ \E data \in SpacingDataSets : SetData(data)
  \/ \E view \in {"graph"} : SwitchView(view)
  \/ \E text \in GapTexts : Gap1Input(text)
  \/ \E text \in GapTexts : Gap2Input(text)
  \/ SpacingReset
  \/ SpacingEqual

SpecSpacing == Init /\ [][NextSpacing]_vars

\* ----------------------------------------------------------------- C30
\* C30: immediately after the 'Equal' spacing action gap1 = gap2, for every
\* pair of gap values that the spacing controls can reach.
C30_EqualMakesEqual ==
  [][SpacingEqual => gap1' = gap2']_vars

\* what does hold: each gap is the rounded average clamped to its own range,
\* so the two are equal when the average lies in [120, 400]
C30_EqualWithinBothRanges ==
  [][SpacingEqual =>
       LET avg == GapAverage(gap1, gap2)
       IN  /\ gap1' = Max2(120, Min2(500, avg))
           /\ gap2' = Max2(100, Min2(400, avg))
           /\ avg \in 120 .. 400 => (gap1' = avg /\ gap2' = avg)]_vars

\* the gaps stay in their ranges
C30_GapsInRange == gap1 \in 120 .. 500 /\ gap2 \in 100 .. 400

====
